---- MODULE Spec2Model ----
(***************************************************************************)
(* A model of qprobing's random ground-truth generation:                   *)
(*   - DagGenerator (qprobing/dag_generator.py): rejection sampling of a   *)
(*     random DAG inside the exception_handler retry loop;                 *)
(*   - DataGenerator (qprobing/data_generator.py): a Bayesian network with *)
(*     random binary CPDs built over a set of edges, and generate_data;    *)
(*   - EffectCalculator and EffectSimulator (qprobing/pgmpy_causality.py): *)
(*     the effect of a treatment on an outcome by exact inference or by    *)
(*     simulation;                                                         *)
(*   - TaskPreparator (qprobing/task_preparator.py) with TrivialityChecker *)
(*     (qprobing/probe_checkers.py): the target, hints and probes of a     *)
(*     task;                                                               *)
(*   - ResultUnpacker (qprobing/experiment_evaluator.py) with              *)
(*     ResultsFilter (qprobing/results_filter.py): the classification of   *)
(*     results as ordinary, valid and invalid;                             *)
(*   - FilterParametersManager (qprobing/filter_parameters_manager.py):    *)
(*     the bins of a filtered attribute.                                   *)
(***************************************************************************)
EXTENDS Integers, Sequences, FiniteSets, TLC

VARIABLES gen,        \* generator id -> the DagGenerator object and its running call
          drawn,      \* (n, p, seed) -> the graph erdos_renyi_graph returned for it
          dg,         \* the DataGenerator object
          np_random,  \* seed -> the stream np.random yields after np.random.seed(seed)
          built,      \* the models create_random_model has built, with their seeds
          held,       \* the model object a caller took from self.model before the last build
          eff,        \* the last call on the model: generate_data or an effect query
          tp,         \* the TaskPreparator object and its running prepare_task call
          ev          \* the evaluation objects: a ResultUnpacker or a FilterParametersManager

vars == <<gen, drawn, dg, np_random, built, held, eff, tp, ev>>

(***************************************************************************)
(* Bounds of the model.                                                    *)
(***************************************************************************)
MaxCount == 2     \* max_count ranges over -1..MaxCount
MaxCalls == 2     \* create_random_dag calls made on one generator object
MaxModels == 2    \* create_random_model calls made on one DataGenerator
Scale == 10       \* a probability p is the integer p * Scale
MaxSamples == 3   \* rows of a table handed to _mean_from_simulated_samples

(***************************************************************************)
(* Optional values: None is the empty sequence, an integer s is <<s>>.     *)
(***************************************************************************)
None == <<>>
Some(s) == <<s>>

(***************************************************************************)
(* The constructor arguments the model is run on.                          *)
(***************************************************************************)
NVars == {0, 1, 2, 3}                          \* n_vars
PEdges == {0, 50, 100}                         \* p_edge, in percent
Seeds == {None, Some(-1), Some(0), Some(1)}    \* seed
MaxCounts == -1..MaxCount                      \* max_count

(***************************************************************************)
(* Graphs.  A graph is a record of a node set and a set of directed edges. *)
(***************************************************************************)
AllPairs(n) == {e \in (0..(n - 1)) \X (0..(n - 1)) : e[1] # e[2]}

\* rg.erdos_renyi_graph(n, p, directed=True): the graphs the draw can return.
\* Every ordered pair of distinct nodes is an edge with probability p.
ErdosRenyi(n, p) ==
    LET ns == 0..(n - 1)
    IN  IF p <= 0 THEN {[nodes |-> ns, edges |-> {}]}
        ELSE IF p >= 100 THEN {[nodes |-> ns, edges |-> AllPairs(n)]}
        ELSE {[nodes |-> ns, edges |-> E] : E \in SUBSET AllPairs(n)}

\* mapping = {node: f"x{node}"}
Label(i) == "x" \o ToString(i)

\* nx.relabel.relabel_nodes(nx_graph, mapping)
RelabelNodes(G) ==
    [nodes |-> {Label(i) : i \in G.nodes},
     edges |-> {<<Label(e[1]), Label(e[2])>> : e \in G.edges}]

\* nx.is_directed_acyclic_graph: peel off nodes without incoming edge until
\* none is left (a topological order exists) or every node has one (a cycle).
RECURSIVE IsDirectedAcyclic(_, _)
IsDirectedAcyclic(nodes, edges) ==
    LET inner == {e \in edges : e[1] \in nodes /\ e[2] \in nodes}
        sources == {n \in nodes : ~ \E e \in inner : e[2] = n}
    IN  IF nodes = {} THEN TRUE
        ELSE IF sources = {} THEN FALSE
        ELSE IsDirectedAcyclic(nodes \ sources, inner)

\* The pairs (a, b) with a directed path of one or more edges from a to b.
RECURSIVE TransitiveClosure(_)
TransitiveClosure(R) ==
    LET R2 == {<<p[1][1], p[2][2]>> : p \in {q \in R \X R : q[1][2] = q[2][1]}}
    IN  IF R2 \subseteq R THEN R ELSE TransitiveClosure(R \cup R2)

HasDirectedCycle(edges) == \E e \in TransitiveClosure(edges) : e[1] = e[2]

\* the nodes that are an endpoint of some edge
Endpoints(edges) == {e[1] : e \in edges} \cup {e[2] : e \in edges}

\* get_nodes_from_edges collecting the source of every edge only
GetNodesFromEdgesSourcesOnly(edges) == {e[1] : e \in edges}

\* get_nodes_from_edges: nodes |= {source, dest} for every edge.
RECURSIVE get_nodes_from_edges(_)
get_nodes_from_edges(edges) ==
    IF edges = {} THEN {}
    ELSE LET e == CHOOSE x \in edges : TRUE
         IN  {e[1], e[2]} \cup get_nodes_from_edges(edges \ {e})

(***************************************************************************)
(* DagGenerator.  One record per generator object: the attributes of the   *)
(* object, the locals of exception_handler's inner_function while a call   *)
(* runs, and a record of the call: the seeds passed to erdos_renyi_graph,  *)
(* the exception the last attempt raised, the two counters as they were    *)
(* before the last attempt, how the call ended.                            *)
(***************************************************************************)
\* DagGenerator.__init__
NewDagGenerator(n_vars, p_edge, seed, max_count) ==
    [n_vars |-> n_vars, p_edge |-> p_edge, seed |-> seed, max_count |-> max_count,
     \* attributes that exist only once a call has set them
     has_graph |-> FALSE, nx_graph |-> [nodes |-> {}, edges |-> {}],
     edges |-> {}, nodes |-> {}, isolated_nodes |-> "unset",
     cyclic_graph_errors |-> 0, isolated_node_errors |-> 0,
     \* inner_function's locals and arguments
     pc |-> "idle", count |-> 0, success |-> FALSE,
     force_n_vars |-> TRUE, show |-> FALSE,
     \* record of the calls
     calls |-> 0, result |-> "none", last_exc |-> "none", seeds_used |-> <<>>,
     errors_before |-> <<0, 0>>, seed_arg |-> seed, seed_at_call |-> seed,
     \* the relabelled graph of the most recent draw that returned one
     last_draw |-> None]

\* `if self.seed:` -- the truth value of an optional integer
Truthy(seed) == seed # None /\ seed[1] # 0

\* if self.seed: self.seed += 1
ShiftSeed(s) ==
    IF Truthy(s.seed) THEN [s EXCEPT !.seed = Some(s.seed[1] + 1)] ELSE s

\* DagGenerator._extract_graph_attributes
ExtractGraphAttributes(s, G) ==
    LET g == RelabelNodes(G)
    IN  [s EXCEPT !.nx_graph = g, !.edges = g.edges,
                  !.nodes = get_nodes_from_edges(g.edges), !.has_graph = TRUE]

\* _check_acyclicity with the `not` of its test left out
CheckAcyclicityInverted(s) ==
    IF IsDirectedAcyclic(s.nx_graph.nodes, s.nx_graph.edges)
    THEN "CyclicGraphError" ELSE "none"

\* DagGenerator._check_acyclicity: the exception it raises, if any
CheckAcyclicity(s) ==
    IF ~ IsDirectedAcyclic(s.nx_graph.nodes, s.nx_graph.edges)
    THEN "CyclicGraphError" ELSE "none"

\* _check_isolated_nodes comparing with > where the counts must be equal
IsolatedNodesGreater(s) == Cardinality(s.nodes) > s.n_vars

\* DagGenerator._check_isolated_nodes: self.isolated_nodes as it sets it
IsolatedNodes(s) == ~ (Cardinality(s.nodes) = s.n_vars)

\* _check_nx_graph with the two checks in the other order
CheckNxGraphIsolatedFirst(s, force_dag, force_n_vars) ==
    LET cyc == IF force_dag THEN CheckAcyclicity(s) ELSE "none"
        s1  == [s EXCEPT !.isolated_nodes = IF IsolatedNodes(s) THEN "True" ELSE "False"]
    IN  IF force_n_vars /\ IsolatedNodes(s) THEN [self |-> s1, exc |-> "IsolatedNodeError"]
        ELSE [self |-> IF force_n_vars THEN s1 ELSE s, exc |-> cyc]

\* DagGenerator._check_nx_graph: the object after the checks and the exception
\* that ended them, if any
CheckNxGraph(s, force_dag, force_n_vars) ==
    LET cyc == IF force_dag THEN CheckAcyclicity(s) ELSE "none"
        s1  == [s EXCEPT !.isolated_nodes = IF IsolatedNodes(s) THEN "True" ELSE "False"]
    IN  IF cyc # "none" THEN [self |-> s, exc |-> cyc]
        ELSE IF ~ force_n_vars THEN [self |-> s, exc |-> "none"]
        ELSE [self |-> s1,
              exc |-> IF IsolatedNodes(s) THEN "IsolatedNodeError" ELSE "none"]

\* _postprocess_nx_graph checking the drawn graph before storing it: a
\* rejected graph leaves nx_graph, edges and nodes as they were
PostprocessNxGraphCheckFirst(s, G, force_n_vars) ==
    LET r == CheckNxGraph(ExtractGraphAttributes(s, G), TRUE, force_n_vars)
    IN  IF r.exc # "none" THEN [self |-> s, exc |-> r.exc] ELSE r

\* DagGenerator._postprocess_nx_graph
PostprocessNxGraph(s, G, force_n_vars) ==
    CheckNxGraph(ExtractGraphAttributes(s, G), TRUE, force_n_vars)

\* The body of create_random_dag, run on the graph G the draw returned.
\* fault: "draw" when erdos_renyi_graph itself raises, "show" when show_graph
\* raises, "none" otherwise.
CreateRandomDagBody(s, G, fault) ==
    IF fault = "draw" THEN [self |-> s, exc |-> "OtherError"]
    ELSE LET r == PostprocessNxGraph(s, G, s.force_n_vars)
         IN  IF r.exc # "none" THEN r
             ELSE IF s.show /\ fault = "show" THEN [self |-> r.self, exc |-> "OtherError"]
             ELSE r

\* the handler with a bare `except:` added, which swallows every other exception
HandleOutcomeBareExcept(r) ==
    CASE r.exc = "CyclicGraphError" ->
            [r.self EXCEPT !.cyclic_graph_errors = @ + 1]
      [] r.exc = "IsolatedNodeError" ->
            [r.self EXCEPT !.isolated_node_errors = @ + 1]
      [] r.exc = "none" ->
            [r.self EXCEPT !.success = TRUE]
      [] OTHER -> r.self

\* try: func(...) except CyclicGraphError / except IsolatedNodeError / else
\* An exception of another kind leaves inner_function: the call is over.
HandleOutcome(r) ==
    CASE r.exc = "CyclicGraphError" ->
            [r.self EXCEPT !.cyclic_graph_errors = @ + 1]
      [] r.exc = "IsolatedNodeError" ->
            [r.self EXCEPT !.isolated_node_errors = @ + 1]
      [] r.exc = "none" ->
            [r.self EXCEPT !.success = TRUE]
      [] OTHER ->
            [r.self EXCEPT !.pc = "idle", !.result = r.exc]

\* the loop test off by one: count <= self.max_count
LoopConditionOffByOne(s) == ~ s.success /\ s.count <= s.max_count

\* while not success and count < self.max_count
LoopCondition(s) == ~ s.success /\ s.count < s.max_count

\* One pass through the body of the while loop.
LoopBody(s, G, fault) ==
    LET s1 == ShiftSeed([s EXCEPT !.count = @ + 1])
        s2 == [s1 EXCEPT !.seeds_used = Append(@, s1.seed),
                         !.errors_before =
                             <<s.cyclic_graph_errors, s.isolated_node_errors>>,
                         !.last_draw = IF fault = "draw" THEN @
                                       ELSE Some(RelabelNodes(G))]
        r  == CreateRandomDagBody(s2, G, fault)
    IN  HandleOutcome([r EXCEPT !.self.last_exc = r.exc])

\* After the loop: raise TooManyAttemptsError unless an attempt succeeded.
AfterLoop(s) ==
    [s EXCEPT !.pc = "idle",
              !.result = IF ~ s.success THEN "TooManyAttemptsError" ELSE "returned"]

\* Entering inner_function: its locals and the two counters are reset.
EnterCall(s, force_n_vars, show) ==
    [s EXCEPT !.pc = "loop", !.count = 0, !.success = FALSE,
              !.cyclic_graph_errors = 0, !.isolated_node_errors = 0,
              !.force_n_vars = force_n_vars, !.show = show,
              !.calls = @ + 1, !.result = "none", !.last_exc = "none",
              !.seeds_used = <<>>, !.errors_before = <<0, 0>>,
              !.seed_at_call = s.seed]

\* what the draw leaves behind when erdos_renyi_graph raises: nothing
NoGraph == [nodes |-> {}, edges |-> {}]

\* a create_random_dag call on s has ended (returned or raised)
Ended(s) == s.pc = "idle" /\ s.calls > 0
Returned(s) == Ended(s) /\ s.result = "returned"

(***************************************************************************)
(* Actions of the generator g.                                             *)
(***************************************************************************)
\* generator.create_random_dag(force_n_vars, show) is called.
Call(g) ==
    /\ gen[g].pc = "idle"
    /\ gen[g].calls < MaxCalls
    /\ \E force_n_vars \in BOOLEAN, show \in BOOLEAN :
          gen' = [gen EXCEPT ![g] = EnterCall(gen[g], force_n_vars, show)]
    /\ UNCHANGED <<drawn, dg, np_random, built, held, eff, tp, ev>>

\* One attempt.  Any graph erdos_renyi_graph can return for (n_vars, p_edge) may
\* be drawn, whatever the seed: every graph a seeded draw returns is among them.
Attempt(g) ==
    /\ gen[g].pc = "loop"
    /\ LoopCondition(gen[g])
    /\ \/ \E G \in ErdosRenyi(gen[g].n_vars, gen[g].p_edge), fault \in {"none", "show"} :
             gen' = [gen EXCEPT ![g] = LoopBody(gen[g], G, fault)]
       \/ gen' = [gen EXCEPT ![g] = LoopBody(gen[g], NoGraph, "draw")]
    /\ UNCHANGED <<drawn, dg, np_random, built, held, eff, tp, ev>>

\* The loop is left: the call returns or raises TooManyAttemptsError.
Finish(g) ==
    /\ gen[g].pc = "loop"
    /\ ~ LoopCondition(gen[g])
    /\ gen' = [gen EXCEPT ![g] = AfterLoop(gen[g])]
    /\ UNCHANGED <<drawn, dg, np_random, built, held, eff, tp, ev>>

(***************************************************************************)
(* DataGenerator: the object and its three constructors.                   *)
(***************************************************************************)
\* node names and edge sets a DataGenerator is built from directly
DataNodes == {"a", "b", "c"}
DataEdgeSets == SUBSET {e \in DataNodes \X DataNodes : e[1] # e[2]}

\* nx.DiGraph(edges): the nodes of the graph are the endpoints of its edges
DiGraph(edges) == [nodes |-> Endpoints(edges), edges |-> edges]

NoModel == [nodes |-> {}, edges |-> {}, cpds |-> {}]

\* self.data before generate_data has set it; a table is kept by its shape
NoData == [len |-> 0, columns |-> {}]

\* no DataGenerator has been constructed
NoDataGenerator ==
    [constructed |-> FALSE, edges |-> {}, nodes |-> {}, nx_graph |-> DiGraph({}),
     has_model |-> FALSE, model |-> NoModel,
     has_data |-> FALSE, data |-> NoData,
     built_by |-> "none", source_nodes |-> {}, models |-> 0, model_seed |-> None,
     result |-> "none"]

\* DataGenerator.__init__(edges); built_by and source_nodes record the
\* constructor used and the nodes of the graph it was given, models, model_seed
\* and result the create_random_model calls made, the seed and the outcome of
\* the last one.  hasattr(self, 'model') is has_model, hasattr(self, 'data')
\* is has_data.
NewDataGenerator(edges, built_by, source_nodes) ==
    [NoDataGenerator EXCEPT !.constructed = TRUE, !.edges = edges,
                            !.nodes = get_nodes_from_edges(edges),
                            !.nx_graph = DiGraph(edges),
                            !.built_by = built_by, !.source_nodes = source_nodes]

\* DataGenerator.from_nx_graph(nx_graph): cls(set(nx_graph.edges))
FromNxGraph(nx_graph, built_by) ==
    NewDataGenerator(nx_graph.edges, built_by, nx_graph.nodes)

\* DataGenerator(edges).  No DagGenerator is involved: the one of the initial
\* state goes unused.
DataGeneratorFromEdges ==
    /\ ~ dg.constructed
    /\ \A g \in DOMAIN gen : gen[g].calls = 0
    /\ \E edges \in DataEdgeSets :
          dg' = NewDataGenerator(edges, "edges", Endpoints(edges))
    /\ gen' = <<>>
    /\ UNCHANGED <<drawn, np_random, built, held, eff, tp, ev>>

\* DataGenerator.from_nx_graph(generator.nx_graph), for the graph a
\* DagGenerator holds after a call, however the call ended.
DataGeneratorFromNxGraph ==
    /\ ~ dg.constructed
    /\ \E g \in DOMAIN gen :
          /\ Ended(gen[g])
          /\ gen[g].has_graph
          /\ dg' = FromNxGraph(gen[g].nx_graph, "from_nx_graph")
    /\ gen' = <<>>
    /\ UNCHANGED <<drawn, np_random, built, held, eff, tp, ev>>

\* DataGenerator.from_scratch(n_vars, p_edge, dag_seed, show): a fresh
\* DagGenerator, one create_random_dag(show=show) call (force_n_vars=True by
\* default) and, when it returns, from_nx_graph on its graph.  The generator is
\* local to from_scratch.  (from_scratch leaves max_count at its default; here
\* it ranges over MaxCounts.)
DataGeneratorFromScratch ==
    /\ ~ dg.constructed
    /\ \E g \in DOMAIN gen :
          /\ Returned(gen[g])
          /\ gen[g].calls = 1
          /\ gen[g].force_n_vars
          /\ dg' = FromNxGraph(gen[g].nx_graph, "from_scratch")
    /\ gen' = <<>>
    /\ UNCHANGED <<drawn, np_random, built, held, eff, tp, ev>>

\* No call on a model has been made.  op, treatment, outcome, n_samples, seed
\* and save_to_file are the call and its arguments, result and value its
\* outcome (a value is a fraction <<numerator, denominator>>), simulations and
\* inferences the model.simulate and CausalInference.query calls it made,
\* files the files it wrote, again the outcome of a repetition of the call,
\* samples the table handed to _mean_from_simulated_samples.
NoCall ==
    [op |-> "none", treatment |-> "", outcome |-> "", n_samples |-> None,
     seed |-> None, save_to_file |-> None,
     result |-> "none", value |-> None,
     simulations |-> 0, inferences |-> 0, files |-> 0,
     again |-> None, samples |-> <<>>]

\* no TaskPreparator has been constructed
NoTaskPreparator ==
    [constructed |-> FALSE, model |-> NoModel, nx_graph |-> DiGraph({}),
     n_samples |-> None, n_samples_arg |-> None,
     has_target |-> FALSE, treatment |-> "", outcome |-> "",
     has_effect |-> FALSE, target_effect |-> None,
     has_hints |-> FALSE, hints |-> {}, has_probes |-> FALSE, probes |-> {},
     pc |-> "idle", calls |-> 0, result |-> "none",
     p_hint |-> 0, p_probe |-> 0, tolerance |-> 0, draws |-> 0,
     \* self.hints as it was when the call began, if it existed
     hints_before |-> None]

\* no ResultUnpacker and no FilterParametersManager has been constructed
NoEvaluation == [op |-> "none"]

\* nothing parameterized, nothing queried
NothingBuilt ==
    /\ np_random = <<>>
    /\ built = <<>>
    /\ held = None
    /\ eff = NoCall
    /\ tp = NoTaskPreparator
    /\ ev = NoEvaluation

Init ==
    /\ NothingBuilt
    /\ \E n_vars \in NVars, p_edge \in PEdges, seed \in Seeds, max_count \in MaxCounts :
          gen = [g \in {1} |-> NewDagGenerator(n_vars, p_edge, seed, max_count)]
    /\ drawn = <<>>
    /\ dg = NoDataGenerator

DagCall == \E g \in DOMAIN gen : Call(g)
DagAttempt == \E g \in DOMAIN gen : Attempt(g)
DagFinish == \E g \in DOMAIN gen : Finish(g)

Next ==
    \/ DagCall \/ DagAttempt \/ DagFinish
    \/ DataGeneratorFromEdges \/ DataGeneratorFromNxGraph \/ DataGeneratorFromScratch

Spec == Init /\ [][Next]_vars

(***************************************************************************)
(* Seeded draws.  erdos_renyi_graph(n, p, seed=s) with an integer s builds *)
(* its own random.Random(s): the graph is a function of (n, p, s).  drawn  *)
(* remembers the graph returned for each (n, p, s) asked so far; a draw    *)
(* with seed None is fresh every time.                                     *)
(***************************************************************************)
\* a draw that does not pass self.seed on (seed=None)
SeededDrawIgnoringSeed(memo, n, p, seed) == ErdosRenyi(n, p)

SeededDraw(memo, n, p, seed) ==
    IF seed # None /\ <<n, p, seed[1]>> \in DOMAIN memo
    THEN {memo[<<n, p, seed[1]>>]}
    ELSE ErdosRenyi(n, p)

Remember(memo, n, p, seed, G) ==
    IF seed = None THEN memo
    ELSE [k \in DOMAIN memo \cup {<<n, p, seed[1]>>} |->
             IF k = <<n, p, seed[1]>> THEN G ELSE memo[k]]

\* the seed the next attempt of s passes to erdos_renyi_graph
NextSeed(s) == ShiftSeed(s).seed

\* Two equal generators, each called once with the same force_n_vars (and
\* show=False), the second after the first call has ended.
CallDet(g) ==
    /\ gen[g].pc = "idle"
    /\ gen[g].calls = 0
    /\ g # 1 => Ended(gen[1])
    /\ \E force_n_vars \in BOOLEAN :
          /\ g # 1 => force_n_vars = gen[1].force_n_vars
          /\ gen' = [gen EXCEPT ![g] = EnterCall(gen[g], force_n_vars, FALSE)]
    /\ UNCHANGED <<drawn, dg, np_random, built, held, eff, tp, ev>>

\* One attempt whose draw is the function of the seed described above.
AttemptDet(g) ==
    /\ gen[g].pc = "loop"
    /\ LoopCondition(gen[g])
    /\ LET s == gen[g]
       IN  \E G \in SeededDraw(drawn, s.n_vars, s.p_edge, NextSeed(s)) :
              /\ gen' = [gen EXCEPT ![g] = LoopBody(s, G, "none")]
              /\ drawn' = Remember(drawn, s.n_vars, s.p_edge, NextSeed(s), G)
    /\ UNCHANGED <<dg, np_random, built, held, eff, tp, ev>>

InitDet ==
    /\ NothingBuilt
    /\ \E n_vars \in NVars, p_edge \in PEdges, seed \in Seeds \ {None},
          max_count \in MaxCounts :
          gen = [g \in {1, 2} |-> NewDagGenerator(n_vars, p_edge, seed, max_count)]
    /\ drawn = <<>>
    /\ dg = NoDataGenerator

DetCall == \E g \in DOMAIN gen : CallDet(g)
DetAttempt == \E g \in DOMAIN gen : AttemptDet(g)
DetFinish == \E g \in DOMAIN gen : Finish(g)

NextDet == DetCall \/ DetAttempt \/ DetFinish

SpecDet == InitDet /\ [][NextDet]_vars

(***************************************************************************)
(* DataGenerator.create_random_model.  A CPD is a record of its variable,  *)
(* its evidence and the two rows of its table (value 0 and value 1), one   *)
(* column per assignment of the evidence; an entry p stands for p / Scale. *)
(***************************************************************************)
\* values np.random.uniform(0, 1) can return, as multiples of 1 / Scale
UniformValues == {2, 7}
CpdSeeds == {None, Some(-1), Some(0), Some(1)}

\* np.random.seed(seed) takes None or an integer of 0 .. 2 ** 32 - 1 and raises
\* ValueError for any other integer
ValidSeed(seed) == seed = None \/ seed[1] >= 0

RECURSIVE Pow2(_)
Pow2(k) == IF k = 0 THEN 1 ELSE 2 * Pow2(k - 1)

\* _get_parents taking the edges that leave the node
GetParentsAsChildren(edges, node) == {e[2] : e \in {x \in edges : x[1] = node}}

\* DataGenerator._get_parents
GetParents(edges, node) == {e[1] : e \in {x \in edges : x[2] = node}}

\* DataGenerator._get_vals: np.random.seed(seed), then the first
\* 2 ** len(parents) values of the generator's stream
GetVals(edges, node, stream) ==
    SubSeq(stream, 1, Pow2(Cardinality(GetParents(edges, node))))

\* create_binary_cpd: TabularCPD(node, 2, [[1 - val ...], vals], parents, [2 ...])
create_binary_cpd(node, vals, parents) ==
    [variable |-> node, evidence |-> parents,
     values |-> << [j \in 1..Len(vals) |-> Scale - vals[j]], vals >>]

\* DataGenerator._create_random_binary_cpd
CreateRandomBinaryCpd(edges, node, stream) ==
    create_binary_cpd(node, GetVals(edges, node, stream), GetParents(edges, node))

\* a stream of its own for every node, as long as the node's table needs
RECURSIVE FreshStreams(_, _)
FreshStreams(edges, nodes) ==
    IF nodes = {} THEN {<<>>}
    ELSE LET n == CHOOSE x \in nodes : TRUE
             own == [1..Pow2(Cardinality(GetParents(edges, n))) -> UniformValues]
         IN  {[m \in DOMAIN f \cup {n} |-> IF m = n THEN u ELSE f[m]] :
                 f \in FreshStreams(edges, nodes \ {n}), u \in own}

\* one stream for all nodes, as long as the largest table needs
SharedStreams(edges, nodes) ==
    LET most == CHOOSE k \in 0..Cardinality(nodes) :
                   /\ \E n \in nodes : Cardinality(GetParents(edges, n)) = k
                   /\ \A n \in nodes : Cardinality(GetParents(edges, n)) <= k
    IN  IF nodes = {} THEN {<<>>}
        ELSE {[n \in nodes |-> u] : u \in [1..Pow2(most) -> UniformValues]}

\* the streams when the seed is not handed to the node's draw: a stream of its
\* own for every node, whatever the seed
NodeStreamsSeedDropped(edges, nodes, seed) == FreshStreams(edges, nodes)

\* The stream behind every node's draw.  With an integer seed the generator is
\* re-seeded with it before each draw: every node reads the same stream.  With
\* seed None each re-seeding is fresh: every node reads a stream of its own.
NodeStreams(edges, nodes, seed) ==
    IF seed # None THEN SharedStreams(edges, nodes) ELSE FreshStreams(edges, nodes)

\* DataGenerator._create_random_binary_cpds, given the streams
CreateRandomBinaryCpds(edges, nodes, streams) ==
    {CreateRandomBinaryCpd(edges, n, streams[n]) : n \in nodes}

\* BayesianNetwork(edges): raises ValueError when the edges hold a cycle
BayesianNetwork(edges) == [nodes |-> Endpoints(edges), edges |-> edges, cpds |-> {}]

\* model.add_cpds(*cpds): a CPD replaces the CPD the model has for the same
\* variable, if any, and is appended otherwise
RECURSIVE AddCpds(_, _)
AddCpds(model, cpds) ==
    IF cpds = {} THEN model
    ELSE LET c == CHOOSE x \in cpds : TRUE
             kept == {x \in model.cpds : x.variable # c.variable}
         IN  AddCpds([model EXCEPT !.cpds = kept \cup {c}], cpds \ {c})

\* DataGenerator.create_random_model(seed) on the object d.  BayesianNetwork
\* raises before self.model is assigned; np.random.seed raises in the first
\* _get_vals, after self.model has been assigned the network without CPDs.
CreateRandomModelBody(d, seed, streams) ==
    IF HasDirectedCycle(d.edges)
    THEN [d EXCEPT !.models = @ + 1, !.model_seed = seed, !.result = "ValueError"]
    ELSE IF ~ ValidSeed(seed) /\ d.nodes # {}
    THEN [d EXCEPT !.models = @ + 1, !.model_seed = seed, !.result = "ValueError",
                   !.has_model = TRUE, !.model = BayesianNetwork(d.edges)]
    ELSE [d EXCEPT !.models = @ + 1, !.model_seed = seed, !.result = "returned",
                   !.has_model = TRUE,
                   !.model = AddCpds(BayesianNetwork(d.edges),
                                     CreateRandomBinaryCpds(d.edges, d.nodes, streams))]

CreateRandomModel ==
    /\ dg.constructed
    /\ dg.models < MaxModels
    /\ \E seed \in CpdSeeds :
          \E streams \in NodeStreams(dg.edges, dg.nodes, seed) :
              dg' = CreateRandomModelBody(dg, seed, streams)
    /\ UNCHANGED <<gen, drawn, np_random, built, held, eff, tp, ev>>

\* A DataGenerator as any of the constructors leaves it.
InitData ==
    /\ NothingBuilt
    /\ gen = <<>>
    /\ drawn = <<>>
    /\ \E edges \in DataEdgeSets :
          dg = NewDataGenerator(edges, "edges", Endpoints(edges))

NextData == CreateRandomModel

SpecData == InitData /\ [][NextData]_vars

(***************************************************************************)
(* Seeded parameterization.  np.random.seed(seed) with an integer seed     *)
(* puts the global generator in a state that is a function of the seed, so *)
(* the values np.random.uniform returns next are the first values of one   *)
(* stream per seed.  np_random remembers the stream of every seed used so  *)
(* far; built lists the models the calls that returned have built.         *)
(***************************************************************************)
\* a parameterization that does not re-seed the generator
SeededStreamsNotReseeded(memo, edges, nodes, seed) == NodeStreams(edges, nodes, seed)

SeededStreams(memo, edges, nodes, seed) ==
    IF seed # None /\ seed[1] \in DOMAIN memo
    THEN {[n \in nodes |-> memo[seed[1]]]}
    ELSE NodeStreams(edges, nodes, seed)

RememberStream(memo, nodes, seed, streams) ==
    IF seed = None \/ nodes = {} THEN memo
    ELSE [k \in DOMAIN memo \cup {seed[1]} |->
             IF k = seed[1] THEN streams[CHOOSE n \in nodes : TRUE] ELSE memo[k]]

\* create_random_model(seed) with an integer seed; one call more than
\* MaxModels, for a call between two calls of the same seed
CreateRandomModelSeeded ==
    /\ dg.constructed
    /\ dg.models < MaxModels + 1
    /\ \E seed \in CpdSeeds \ {None} :
          \E streams \in SeededStreams(np_random, dg.edges, dg.nodes, seed) :
              /\ dg' = CreateRandomModelBody(dg, seed, streams)
              /\ np_random' = IF dg'.result = "returned"
                               THEN RememberStream(np_random, dg.nodes, seed, streams)
                               ELSE np_random
              /\ built' = IF dg'.result = "returned"
                           THEN Append(built, [seed |-> seed, model |-> dg'.model])
                           ELSE built
    /\ UNCHANGED <<gen, drawn, held, eff, tp, ev>>

NextCpd == CreateRandomModelSeeded

SpecCpd == InitData /\ [][NextCpd]_vars

(***************************************************************************)
(* Effect determination (qprobing/pgmpy_causality.py).  A probability or   *)
(* an effect is a fraction <<numerator, denominator>>; a sample table is a *)
(* sequence of rows, a row a function from the model's nodes to {0, 1}.    *)
(***************************************************************************)
\* n_samples
SampleSizes == {None, Some(0), Some(1), Some(2)}

Frac(n, d) == <<n, d>>
FracSub(x, y) == <<x[1] * y[2] - y[1] * x[2], x[2] * y[2]>>
FracEq(x, y) == x[1] * y[2] = y[1] * x[2]

\* the order in which a CPD lists its evidence, and with it its columns
NodeOrder == <<"a", "b", "c">>
Rank(n) == CHOOSE i \in DOMAIN NodeOrder : NodeOrder[i] = n

\* the column of a CPD with evidence parents for the row's values of the
\* parents: the first parent is the most significant digit
RECURSIVE ColumnDigits(_, _)
ColumnDigits(parents, row) ==
    IF parents = {} THEN 0
    ELSE LET last == CHOOSE p \in parents : \A q \in parents : Rank(q) <= Rank(p)
         IN  2 * ColumnDigits(parents \ {last}, row) + row[last]

Column(parents, row) == 1 + ColumnDigits(parents, row)

\* P(node = row[node] | the row's values of the node's parents) * Scale
Factor(model, node, row) ==
    LET c == CHOOSE x \in model.cpds : x.variable = node
    IN  c.values[row[node] + 1][Column(c.evidence, row)]

RECURSIVE Product(_, _, _)
Product(model, nodes, row) ==
    IF nodes = {} THEN 1
    ELSE LET n == CHOOSE x \in nodes : TRUE
         IN  Factor(model, n, row) * Product(model, nodes \ {n}, row)

RECURSIVE Sum(_, _, _)
Sum(model, nodes, rows) ==
    IF rows = {} THEN 0
    ELSE LET r == CHOOSE x \in rows : TRUE
         IN  Product(model, nodes, r) + Sum(model, nodes, rows \ {r})

\* the rows model.simulate(do={treatment: do_value}) can return: treatment is
\* clamped, every other node takes a value of positive probability
DoRows(model, treatment, do_value) ==
    {r \in [model.nodes -> {0, 1}] :
        /\ r[treatment] = do_value
        /\ \A n \in model.nodes \ {treatment} : Factor(model, n, r) > 0}

\* the tables model.simulate(n_samples=n, do={treatment: do_value}) can return
Simulate(model, n, treatment, do_value) ==
    [1..n -> DoRows(model, treatment, do_value)]

\* nx.has_path(model, source, target), for nodes of the model
has_path(model, source, target) ==
    source = target \/ <<source, target>> \in TransitiveClosure(model.edges)

\* CausalInference(model).query([outcome], do={treatment: do_value}).values[1]:
\* P(outcome = 1 | do(treatment = do_value)), by the truncated factorization
Query(model, treatment, do_value, outcome) ==
    LET others == model.nodes \ {treatment}
        rows == {r \in [model.nodes -> {0, 1}] :
                    r[treatment] = do_value /\ r[outcome] = 1}
    IN  Frac(Sum(model, others, rows), Scale ^ Cardinality(others))

\* every node of the model has a CPD; pgmpy's sampling and inference raise
\* on a model that has not
HasCpds(model) == \A n \in model.nodes : \E c \in model.cpds : c.variable = n

\* Series.value_counts(): the count of every value that occurs in the column
value_counts(col) ==
    [v \in {col[i] : i \in DOMAIN col} |-> Cardinality({i \in DOMAIN col : col[i] = v})]

\* EffectSimulator._mean_from_simulated_samples: value_counts()[1] raises
\* KeyError when no sample has the value 1
mean_from_simulated_samples(samples, var_name) ==
    LET target_col == [i \in DOMAIN samples |-> samples[i][var_name]]
        counts == value_counts(target_col)
    IN  IF 1 \in DOMAIN counts
        THEN [result |-> "returned", value |-> Frac(counts[1], Len(samples))]
        ELSE [result |-> "KeyError", value |-> None]

\* EffectSimulator._determine_interventional_mean, samples being the table
\* model.simulate returns; model.simulate raises for n_samples=None and for a
\* model without CPDs
SimulatorMean(model, outcome, n_samples, samples) ==
    LET mean == IF n_samples = None \/ ~ HasCpds(model)
                THEN [result |-> "LibraryError", value |-> None]
                ELSE mean_from_simulated_samples(samples, outcome)
    IN  [result |-> mean.result, value |-> mean.value, strategy |-> "simulation"]

\* EffectDeterminator._effect_is_trivial_one
effect_is_trivial_one(treatment, outcome) == treatment = outcome

\* EffectDeterminator._effect_is_trivial_zero, for nodes of the model
effect_is_trivial_zero(model, treatment, outcome) == ~ has_path(model, treatment, outcome)

\* EffectCalculator._has_direct_edge
has_direct_edge(model, treatment, outcome) == <<treatment, outcome>> \in model.edges

\* _effect_is_problematic without the test for a direct edge
EffectIsProblematicAnyPath(model, treatment, outcome) ==
    /\ ~ effect_is_trivial_zero(model, treatment, outcome)
    /\ ~ effect_is_trivial_one(treatment, outcome)

\* EffectCalculator._effect_is_problematic
effect_is_problematic(model, treatment, outcome) ==
    /\ ~ effect_is_trivial_zero(model, treatment, outcome)
    /\ ~ effect_is_trivial_one(treatment, outcome)
    /\ ~ has_direct_edge(model, treatment, outcome)

\* _use_simulation_fallback testing `self.n_samples is None`
UseSimulationFallbackNoneOnly(model, outcome, n_samples, samples) ==
    IF n_samples = None
    THEN [result |-> "SimulationFallbackError", value |-> None, strategy |-> "none"]
    ELSE SimulatorMean(model, outcome, n_samples, samples)

\* EffectCalculator._use_simulation_fallback: `not self.n_samples` holds for
\* None and for 0
use_simulation_fallback(model, outcome, n_samples, samples) ==
    IF n_samples = None \/ n_samples[1] = 0
    THEN [result |-> "SimulationFallbackError", value |-> None, strategy |-> "none"]
    ELSE SimulatorMean(model, outcome, n_samples, samples)

\* EffectCalculator._determine_unproblematic_interventional_mean
determine_unproblematic_interventional_mean(model, treatment, outcome, do_value) ==
    IF ~ HasCpds(model)
    THEN [result |-> "LibraryError", value |-> None, strategy |-> "inference"]
    ELSE [result |-> "returned", value |-> Query(model, treatment, do_value, outcome),
          strategy |-> "inference"]

\* EffectCalculator._determine_interventional_mean
CalculatorMean(model, treatment, outcome, n_samples, do_value, samples) ==
    IF effect_is_problematic(model, treatment, outcome)
    THEN use_simulation_fallback(model, outcome, n_samples, samples)
    ELSE determine_unproblematic_interventional_mean(model, treatment, outcome, do_value)

\* _determine_interventional_mean of the class kind
InterventionalMean(kind, model, treatment, outcome, n_samples, do_value, samples) ==
    IF kind = "EffectCalculator"
    THEN CalculatorMean(model, treatment, outcome, n_samples, do_value, samples)
    ELSE SimulatorMean(model, outcome, n_samples, samples)

Count(means, strategy) ==
    Cardinality({i \in DOMAIN means : means[i].strategy = strategy})

\* EffectDeterminator._determine_nontrivial_effect: the comprehension over
\* {0, 1} takes do_value 0 first; an exception ends it
DetermineNontrivialEffect(kind, model, treatment, outcome, n_samples, tables) ==
    LET mean0 == InterventionalMean(kind, model, treatment, outcome, n_samples, 0, tables[1])
        mean1 == InterventionalMean(kind, model, treatment, outcome, n_samples, 1, tables[2])
        evaluated == IF mean0.result = "returned" THEN <<mean0, mean1>> ELSE <<mean0>>
        last == evaluated[Len(evaluated)]
    IN  [result |-> last.result,
         value |-> IF last.result = "returned"
                   THEN FracSub(mean1.value, mean0.value) ELSE None,
         simulations |-> Count(evaluated, "simulation"),
         inferences |-> Count(evaluated, "inference")]

\* determine_effect without the two tests for a trivial effect
DetermineEffectNoShortcut(kind, model, treatment, outcome, n_samples, tables) ==
    IF {treatment, outcome} \ model.nodes # {}
    THEN [result |-> "NodeNotFound", value |-> None, simulations |-> 0, inferences |-> 0]
    ELSE DetermineNontrivialEffect(kind, model, treatment, outcome, n_samples, tables)

\* EffectDeterminator.determine_effect; nx.has_path raises NodeNotFound for a
\* treatment or an outcome that is not a node of the model
DetermineEffect(kind, model, treatment, outcome, n_samples, tables) ==
    IF effect_is_trivial_one(treatment, outcome)
    THEN [result |-> "returned", value |-> Frac(1, 1), simulations |-> 0, inferences |-> 0]
    ELSE IF {treatment, outcome} \ model.nodes # {}
    THEN [result |-> "NodeNotFound", value |-> None, simulations |-> 0, inferences |-> 0]
    ELSE IF effect_is_trivial_zero(model, treatment, outcome)
    THEN [result |-> "returned", value |-> Frac(0, 1), simulations |-> 0, inferences |-> 0]
    ELSE DetermineNontrivialEffect(kind, model, treatment, outcome, n_samples, tables)

\* the call reaches model.simulate with arguments it accepts
SimulationReached(kind, model, treatment, outcome, n_samples) ==
    /\ treatment # outcome
    /\ {treatment, outcome} \subseteq model.nodes
    /\ has_path(model, treatment, outcome)
    /\ HasCpds(model)
    /\ n_samples # None
    /\ kind = "EffectSimulator" \/ effect_is_problematic(model, treatment, outcome)

\* the tables the two model.simulate calls of a query can return, for
\* do_value 0 and 1
DoTables(kind, model, treatment, outcome, n_samples) ==
    IF SimulationReached(kind, model, treatment, outcome, n_samples)
    THEN Simulate(model, n_samples[1], treatment, 0)
             \X Simulate(model, n_samples[1], treatment, 1)
    ELSE {<< <<>>, <<>> >>}

\* the record of a query
EffectCall(op, kind, model, treatment, outcome, n_samples, tables) ==
    LET out == DetermineEffect(kind, model, treatment, outcome, n_samples, tables)
    IN  [NoCall EXCEPT !.op = op, !.treatment = treatment, !.outcome = outcome,
                       !.n_samples = n_samples,
                       !.result = out.result, !.value = out.value,
                       !.simulations = out.simulations, !.inferences = out.inferences]

\* model.simulate and CausalInference.query intervening on the model in place
ModelAfterDoInPlace(model, do_nodes) ==
    [model EXCEPT !.edges = {e \in @ : e[2] \notin do_nodes},
                  !.cpds = {c \in @ : c.variable \notin do_nodes}]

\* The model object after model.simulate(do=...) or CausalInference.query(do=...)
\* on it: both intervene on a copy (BayesianNetwork.do with inplace=False).
ModelAfterDo(model, do_nodes) == model

\* the nodes a query intervenes on
DoNodes(call) == IF call.simulations + call.inferences > 0 THEN {call.treatment} ELSE {}

\* create_random_model re-parameterizing the object self.model refers to
HeldAfterBuildInPlace(old, new) == new

\* The object self.model referred to before create_random_model, after it:
\* self.model = BayesianNetwork(self.edges) binds the attribute to a new object.
HeldAfterBuild(old, new) == old

\* model = generator.model; generator.create_random_model(seed), with an
\* integer seed.  A run parameterizes the generator and then makes one call on
\* the model.
CreateRandomModelHeld ==
    /\ dg.constructed
    /\ dg.models < MaxModels
    /\ eff.op = "none"
    /\ \E seed \in {Some(-1), Some(0)} :
          \E streams \in NodeStreams(dg.edges, dg.nodes, seed) :
              LET d == CreateRandomModelBody(dg, seed, streams)
              IN  /\ dg' = d
                  /\ held' = IF dg.has_model
                              THEN Some(HeldAfterBuild(dg.model, d.model))
                              ELSE held
    /\ UNCHANGED <<gen, drawn, np_random, built, eff, tp, ev>>

\* save_to_file
FileNames == {None, Some(""), Some("data.csv")}
\* the seed of generate_data
DataSeeds == {None, Some(1)}

\* the guard of generate_data testing hasattr(self, 'data')
MissingModelTestsData(d) == ~ d.has_data

\* not hasattr(self, 'model')
MissingModel(d) == ~ d.has_model

\* DataGenerator.generate_data(n_samples, seed, save_to_file) on the object d:
\* the object and the record of the call
GenerateDataBody(d, n_samples, seed, save_to_file) ==
    LET call == [NoCall EXCEPT !.op = "generate_data", !.n_samples = n_samples,
                               !.seed = seed, !.save_to_file = save_to_file]
    IN  IF MissingModel(d)
        THEN [dg |-> d, eff |-> [call EXCEPT !.result = "MissingModelError"]]
        ELSE IF n_samples = None \/ ~ HasCpds(d.model)
        THEN [dg |-> d,
              eff |-> [call EXCEPT !.result = "LibraryError", !.simulations = 1]]
        ELSE [dg |-> [d EXCEPT !.model = ModelAfterDo(d.model, {}),
                               !.has_data = TRUE,
                               !.data = [len |-> n_samples[1], columns |-> d.model.nodes]],
              eff |-> [call EXCEPT !.result = "returned", !.simulations = 1,
                                   !.files = IF save_to_file # None /\ save_to_file[1] # ""
                                             THEN 1 ELSE 0]]

GenerateData ==
    /\ dg.constructed
    /\ eff.op = "none"
    /\ \E n_samples \in SampleSizes, seed \in DataSeeds, save_to_file \in FileNames :
          LET after == GenerateDataBody(dg, n_samples, seed, save_to_file)
          IN  dg' = after.dg /\ eff' = after.eff
    /\ UNCHANGED <<gen, drawn, np_random, built, held, tp, ev>>

\* calculate_effect or simulate_effect on the generator's model
EffectQuery(op, kind) ==
    /\ dg.has_model
    /\ eff.op = "none"
    /\ \E treatment \in DataNodes, outcome \in DataNodes, n_samples \in SampleSizes :
          \E tables \in DoTables(kind, dg.model, treatment, outcome, n_samples) :
              /\ eff' = EffectCall(op, kind, dg.model, treatment, outcome, n_samples, tables)
              /\ dg' = [dg EXCEPT !.model = ModelAfterDo(@, DoNodes(eff'))]
    /\ UNCHANGED <<gen, drawn, np_random, built, held, tp, ev>>

\* calculate_effect(model, treatment, outcome, n_samples)
CalculateEffect == EffectQuery("calculate_effect", "EffectCalculator")

\* simulate_effect(model, treatment, outcome, n_samples)
SimulateEffect == EffectQuery("simulate_effect", "EffectSimulator")

\* calculate_effect once more, with the arguments of the call before
CalculateEffectAgain ==
    /\ eff.op = "calculate_effect"
    /\ eff.again = None
    /\ \E tables \in DoTables("EffectCalculator", dg.model, eff.treatment, eff.outcome,
                               eff.n_samples) :
          LET call == EffectCall("calculate_effect", "EffectCalculator", dg.model,
                                 eff.treatment, eff.outcome, eff.n_samples, tables)
          IN  /\ eff' = [eff EXCEPT !.again = Some([result |-> call.result,
                                                     value |-> call.value])]
              /\ dg' = [dg EXCEPT !.model = ModelAfterDo(@, DoNodes(call))]
    /\ UNCHANGED <<gen, drawn, np_random, built, held, tp, ev>>

\* edge sets of the queried models: each shape of a graph on three nodes
EffectEdgeSets == SUBSET {<<"a", "b">>, <<"a", "c">>, <<"b", "c">>, <<"c", "a">>}

InitEffect ==
    /\ NothingBuilt
    /\ gen = <<>>
    /\ drawn = <<>>
    /\ \E edges \in EffectEdgeSets :
          dg = NewDataGenerator(edges, "edges", Endpoints(edges))

NextEffect ==
    \/ CreateRandomModelHeld
    \/ GenerateData
    \/ CalculateEffect
    \/ SimulateEffect
    \/ CalculateEffectAgain

SpecEffect == InitEffect /\ [][NextEffect]_vars

(***************************************************************************)
(* EffectSimulator._mean_from_simulated_samples on its own: a table of up  *)
(* to MaxSamples rows over two columns and the name of one of them.        *)
(***************************************************************************)
MeanColumns == {"a", "b"}

SampleTables ==
    UNION {[1..n -> [MeanColumns -> {0, 1}]] : n \in 0..MaxSamples}

MeanFromSimulatedSamples ==
    /\ eff.op = "none"
    /\ LET mean == mean_from_simulated_samples(eff.samples, eff.outcome)
       IN  eff' = [eff EXCEPT !.op = "mean_from_simulated_samples",
                              !.result = mean.result, !.value = mean.value]
    /\ UNCHANGED <<gen, drawn, dg, np_random, built, held, tp, ev>>

InitMean ==
    /\ gen = <<>>
    /\ drawn = <<>>
    /\ dg = NoDataGenerator
    /\ np_random = <<>>
    /\ built = <<>>
    /\ held = None
    /\ tp = NoTaskPreparator
    /\ ev = NoEvaluation
    /\ \E samples \in SampleTables, var_name \in MeanColumns :
          eff = [NoCall EXCEPT !.samples = samples, !.outcome = var_name]

NextMean == MeanFromSimulatedSamples

SpecMean == InitMean /\ [][NextMean]_vars

(***************************************************************************)
(* TaskPreparator (qprobing/task_preparator.py).  One record for the       *)
(* object: its attributes (has_target, has_effect, has_hints, has_probes   *)
(* say which of treatment/outcome, target_effect, hints, probes exist),    *)
(* the position of the running prepare_task call (pc is "select" inside    *)
(* the loop of _get_random_treatment_and_outcome, "prepare" from the       *)
(* loop's end to the end of the call), and a record of the                 *)
(* last call: its arguments, how it ended, the passes the loop made.       *)
(* p_hint and p_probe are percentages, tolerance is in tenths.             *)
(***************************************************************************)
MaxTaskCalls == 2   \* prepare_task calls made on one TaskPreparator
MaxDraws == 1       \* the passes of the selection loop are counted up to MaxDraws

\* self._n_samples = 1000
DefaultSamples == 1000

\* TaskPreparator.__init__ storing the n_samples it was given
NewTaskPreparatorKeepingArgument(model, nx_graph, n_samples) ==
    [NoTaskPreparator EXCEPT !.constructed = TRUE, !.model = model,
                             !.nx_graph = nx_graph, !.n_samples = n_samples,
                             !.n_samples_arg = n_samples]

\* TaskPreparator.__init__(model, nx_graph, n_samples)
NewTaskPreparator(model, nx_graph, n_samples) ==
    [NoTaskPreparator EXCEPT !.constructed = TRUE, !.model = model,
                             !.nx_graph = nx_graph, !.n_samples = Some(DefaultSamples),
                             !.n_samples_arg = n_samples]

\* TaskPreparator._n_variables
n_variables(s) == Cardinality(s.model.nodes)

\* int(p * length) for a percentage p >= 0
IntOf(p, length) == (p * length) \div 100

\* random.sample(population, k) raises ValueError for k > len(population)
\* and for k < 0
SampleTooLarge(population, k) == k > Cardinality(population) \/ k < 0

\* k draws with replacement, as a set: a draw can repeat an earlier one
SampleWithReplacement(population, k) ==
    {c \in SUBSET population : Cardinality(c) <= k /\ (k > 0 => c # {})}

\* the results random.sample(population, k) can have, as sets
Sample(population, k) == {c \in SUBSET population : Cardinality(c) = k}

\* _check_trivial_effect without the test for a path
CheckTrivialEffectSameNodeOnly(nx_graph, treatment, outcome) == treatment = outcome

\* TaskPreparator._check_trivial_effect
check_trivial_effect(nx_graph, treatment, outcome) ==
    IF treatment = outcome THEN TRUE ELSE ~ has_path(nx_graph, treatment, outcome)

\* random.sample(nx_nodes, 2) as (treatment, outcome): two different nodes
SamplePairs(nx_graph) ==
    {pr \in nx_graph.nodes \X nx_graph.nodes : pr[1] # pr[2]}

\* A simulated table of n rows is kept as TaskRows rows (fewer when n is
\* smaller), each standing for n / TaskRows rows drawn: the proportion of
\* ones of a column is the same.
TaskRows == 10

Rows(n) == IF n < TaskRows THEN n ELSE TaskRows

\* how many of the kept rows of a simulated table have the value 1 in the
\* outcome column
SimCounts == {0, 4, 9}

\* a table model.simulate(n_samples=n, do={treatment: do_value}) can return:
\* ones of its kept rows have outcome 1.  Every CPD entry of the models built
\* here is positive, so every row with the treatment clamped can be drawn.
SimTable(model, treatment, do_value, outcome, ones, n) ==
    [i \in 1..Rows(n) |->
        [m \in model.nodes |->
            IF m = treatment THEN do_value
            ELSE IF m = outcome /\ i <= ones THEN 1 ELSE 0]]

\* the outcome counts the two simulations of a query can yield
SimCountPairs(n_samples) ==
    IF n_samples = None THEN {}
    ELSE {c \in SimCounts \X SimCounts :
             c[1] <= Rows(n_samples[1]) /\ c[2] <= Rows(n_samples[1])}

\* the outcome counts of the two simulations of a query, when it simulates
TaskCounts(model, treatment, outcome, n_samples) ==
    IF SimulationReached("EffectCalculator", model, treatment, outcome, n_samples)
    THEN SimCountPairs(n_samples)
    ELSE {<<0, 0>>}

\* calculate_effect(model, treatment, outcome, n_samples), the simulations
\* it makes, if any, yielding tables with the given counts
calculate_effect(model, treatment, outcome, n_samples, counts) ==
    LET reached == SimulationReached("EffectCalculator", model, treatment, outcome, n_samples)
        tables == IF reached
                  THEN << SimTable(model, treatment, 0, outcome, counts[1], n_samples[1]),
                          SimTable(model, treatment, 1, outcome, counts[2], n_samples[1]) >>
                  ELSE << <<>>, <<>> >>
    IN  DetermineEffect("EffectCalculator", model, treatment, outcome, n_samples, tables)

FracAdd(x, y) == <<x[1] * y[2] + y[1] * x[2], x[2] * y[2]>>
FracLeq(x, y) == x[1] * y[2] <= y[1] * x[2]

\* a tolerance given in tenths
Tenths(t) == Frac(t, 10)

\* the call ends with the exception exc
Raise(s, exc) == [s EXCEPT !.pc = "idle", !.result = exc]

\* TaskPreparator._create_probe_from_spec:
\* ((treatment, outcome, 'nonparametric-ate'), ('between', lower, upper))
create_probe_from_spec(model, spec, tolerance, n_samples, counts) ==
    LET effect == calculate_effect(model, spec[1], spec[2], n_samples, counts)
    IN  IF effect.result # "returned"
        THEN [result |-> effect.result, treatment |-> spec[1], outcome |-> spec[2],
              lower_bound |-> None, upper_bound |-> None]
        ELSE [result |-> "returned", treatment |-> spec[1], outcome |-> spec[2],
              lower_bound |-> Some(FracSub(effect.value, Tenths(tolerance))),
              upper_bound |-> Some(FracAdd(effect.value, Tenths(tolerance)))]

\* the probe as it is stored in self.probes
Probe(made) ==
    [treatment |-> made.treatment, outcome |-> made.outcome,
     lower_bound |-> made.lower_bound[1], upper_bound |-> made.upper_bound[1]]

\* TrivialityChecker.check_probe on a stored probe, whose ('between', lower,
\* upper) is the probe's 'Expected' entry: the lower bound is in {0.9, -0.1}
check_probe(p) ==
    \/ FracEq(p.lower_bound, Frac(9, 10))
    \/ FracEq(p.lower_bound, Frac(-1, 10))

\* prepare_task up to self.target_effect = calculate_effect(...): the objects
\* it can leave
SetTarget(s, treatment, outcome) ==
    LET s1 == [s EXCEPT !.has_target = TRUE, !.treatment = treatment,
                        !.outcome = outcome]
    IN  {LET effect == calculate_effect(s.model, treatment, outcome, s.n_samples, c)
         IN  IF effect.result = "returned"
             THEN [s1 EXCEPT !.has_effect = TRUE, !.target_effect = effect.value]
             ELSE Raise(s1, effect.result) :
         c \in TaskCounts(s.model, treatment, outcome, s.n_samples)}

\* _prepare_hints adding the new hints to the ones the object has
PrepareHintsKeepingOld(s, p_hint) ==
    LET edges == s.model.edges
        n_hints == IntOf(p_hint, Cardinality(edges))
    IN  IF SampleTooLarge(edges, n_hints) THEN {Raise(s, "ValueError")}
        ELSE {[s EXCEPT !.has_hints = TRUE, !.hints = @ \cup h] : h \in Sample(edges, n_hints)}

\* TaskPreparator._prepare_hints
PrepareHints(s, p_hint) ==
    LET edges == s.model.edges
        n_hints == IntOf(p_hint, Cardinality(edges))
    IN  IF SampleTooLarge(edges, n_hints) THEN {Raise(s, "ValueError")}
        ELSE {[s EXCEPT !.has_hints = TRUE, !.hints = h] : h \in Sample(edges, n_hints)}

\* TaskPreparator._create_all_possible_probe_specs
create_all_possible_probe_specs(nx_graph) == nx_graph.nodes \X nx_graph.nodes

\* the set comprehension of _prepare_probes over the chosen specs, the
\* simulations yielding the counts c: the probes, or the exception of a spec
\* whose effect could not be calculated
ProbesOf(s, specs, tolerance, c) ==
    LET made == {create_probe_from_spec(s.model, spec, tolerance, s.n_samples,
                                        IF spec \in DOMAIN c THEN c[spec] ELSE <<0, 0>>) :
                    spec \in specs}
        failed == {m \in made : m.result # "returned"}
    IN  IF failed = {}
        THEN {[s EXCEPT !.has_probes = TRUE, !.probes = {Probe(m) : m \in made}]}
        ELSE {Raise(s, m.result) : m \in failed}

\* TaskPreparator._prepare_probes
PrepareProbes(s, p_probe, tolerance) ==
    LET n_probes == IntOf(p_probe, n_variables(s) * n_variables(s))
        possible_specs == create_all_possible_probe_specs(s.nx_graph)
    IN  IF SampleTooLarge(possible_specs, n_probes) THEN {Raise(s, "ValueError")}
        ELSE UNION {
               LET simulated == {spec \in specs :
                                    SimulationReached("EffectCalculator", s.model,
                                                      spec[1], spec[2], s.n_samples)}
               IN  UNION {ProbesOf(s, specs, tolerance, c) :
                             c \in [simulated -> SimCountPairs(s.n_samples)]} :
               specs \in Sample(possible_specs, n_probes)}

\* prepare_task from the pair the selection loop returned to its end
PrepareTaskBody(s, treatment, outcome) ==
    LET targets == SetTarget(s, treatment, outcome)
        hinted == UNION {IF s1.pc = "idle" THEN {s1} ELSE PrepareHints(s1, s.p_hint) :
                            s1 \in targets}
        probed == UNION {IF s2.pc = "idle" THEN {s2}
                         ELSE PrepareProbes(s2, s.p_probe, s.tolerance) :
                            s2 \in hinted}
    IN  {IF s3.pc = "idle" THEN s3 ELSE Raise(s3, "returned") : s3 \in probed}

PHints == {0, 50, 100, 200}
PProbes == {0, 12, 100, 200}
Tolerances == {1, 2}

\* preparator.prepare_task(p_hint, p_probe, tolerance) is called.  A preparator
\* prepares one task; prepare_task is called again only after a call that
\* raised.  random.sample(nx_nodes, 2) raises ValueError on a graph with fewer
\* than two nodes.
TaskPrepare ==
    /\ tp.constructed
    /\ tp.pc = "idle"
    /\ tp.calls = 0 \/ (tp.calls < MaxTaskCalls /\ tp.result # "returned")
    /\ \E p_hint \in PHints, p_probe \in PProbes, tolerance \in Tolerances :
          LET s == [tp EXCEPT !.pc = "select", !.calls = @ + 1, !.result = "none",
                              !.p_hint = p_hint, !.p_probe = p_probe,
                              !.tolerance = tolerance, !.draws = 0,
                              !.hints_before = IF tp.has_hints THEN Some(tp.hints)
                                               ELSE None]
          IN  tp' = IF Cardinality(s.nx_graph.nodes) < 2 THEN Raise(s, "ValueError")
                    ELSE s
    /\ UNCHANGED <<gen, drawn, dg, np_random, built, held, eff, ev>>

\* a pass of the selection loop that draws a trivial pair: the loop goes on
TaskSelectTrivial ==
    /\ tp.pc = "select"
    /\ \E pr \in SamplePairs(tp.nx_graph) :
          /\ check_trivial_effect(tp.nx_graph, pr[1], pr[2])
          /\ tp' = [tp EXCEPT !.draws = IF @ < MaxDraws THEN @ + 1 ELSE @]
    /\ UNCHANGED <<gen, drawn, dg, np_random, built, held, eff, ev>>

\* a pass of the selection loop that draws a nontrivial pair: the loop ends
\* and the pair becomes self.treatment, self.outcome
TaskSelectNontrivial ==
    /\ tp.pc = "select"
    /\ \E pr \in SamplePairs(tp.nx_graph) :
          /\ ~ check_trivial_effect(tp.nx_graph, pr[1], pr[2])
          /\ tp' = [tp EXCEPT !.pc = "prepare",
                              !.draws = IF @ < MaxDraws THEN @ + 1 ELSE @,
                              !.has_target = TRUE,
                              !.treatment = pr[1], !.outcome = pr[2]]
    /\ UNCHANGED <<gen, drawn, dg, np_random, built, held, eff, ev>>

\* prepare_task from the target effect of the selected pair to its end
TaskFinish ==
    /\ tp.pc = "prepare"
    /\ \E after \in PrepareTaskBody(tp, tp.treatment, tp.outcome) : tp' = after
    /\ UNCHANGED <<gen, drawn, dg, np_random, built, held, eff, ev>>

\* the edges of the graphs a preparator is built over
TaskEdgeSets ==
    { {}, {<<"a", "b">>}, {<<"a", "b">>, <<"b", "c">>} }

\* the values np.random.uniform returned when the model was parameterized
TaskStream == <<2, 7, 7, 2>>

\* the model of DataGenerator(edges) after create_random_model
TaskModel(edges) ==
    LET d == NewDataGenerator(edges, "edges", Endpoints(edges))
    IN  CreateRandomModelBody(d, None, [n \in d.nodes |-> TaskStream]).model

\* the n_samples a TaskPreparator is constructed with
TaskSampleSizes == {None, Some(1000)}

\* TaskPreparator(generator.model, generator.nx_graph, n_samples), as
\* conftest.py builds it
InitTask ==
    /\ gen = <<>>
    /\ drawn = <<>>
    /\ dg = NoDataGenerator
    /\ np_random = <<>>
    /\ built = <<>>
    /\ held = None
    /\ eff = NoCall
    /\ ev = NoEvaluation
    /\ \E edges \in TaskEdgeSets, n_samples \in TaskSampleSizes :
          tp = NewTaskPreparator(TaskModel(edges), DiGraph(edges), n_samples)

NextTask == TaskPrepare \/ TaskSelectTrivial \/ TaskSelectNontrivial \/ TaskFinish

SpecTask == InitTask /\ [][NextTask]_vars

(***************************************************************************)
(* The selection loop over any graph.  TaskPreparator(model, nx_graph)     *)
(* accepts a graph with isolated nodes, as a DagGenerator can hold one,    *)
(* next to the model over its edges.  random.sample draws every pair with  *)
(* the same probability in every pass, independently of the passes before: *)
(* a pair that can be drawn in every pass is drawn in some pass with       *)
(* probability 1, which is weak fairness of the pass that draws a          *)
(* nontrivial pair.                                                        *)
(***************************************************************************)
SelectGraphs ==
    { [nodes |-> {"a"}, edges |-> {}],
      [nodes |-> {"a", "b"}, edges |-> {}],
      [nodes |-> {"a", "b"}, edges |-> {<<"a", "b">>}],
      [nodes |-> {"a", "b", "c"}, edges |-> {<<"a", "b">>}] }

InitSelect ==
    /\ gen = <<>>
    /\ drawn = <<>>
    /\ dg = NoDataGenerator
    /\ np_random = <<>>
    /\ built = <<>>
    /\ held = None
    /\ eff = NoCall
    /\ ev = NoEvaluation
    /\ \E nx_graph \in SelectGraphs :
          tp = NewTaskPreparator(TaskModel(nx_graph.edges), nx_graph, None)

SpecSelect == InitSelect /\ [][NextTask]_vars /\ WF_vars(TaskSelectNontrivial)

(***************************************************************************)
(* ResultUnpacker._check_results_for_validity                              *)
(* (qprobing/experiment_evaluator.py) and ResultsFilter                    *)
(* (qprobing/results_filter.py).  An entry of the results list is an       *)
(* exception or a result dict, from which ExperimentResult.from_result_dict*)
(* makes a new object; ExperimentResult defines no __eq__, so `x not in    *)
(* self._valid_results` compares objects by identity: a list of results is *)
(* kept as the list of their positions in the results list.  filter_params *)
(* is kept as the list of its items, in the order of the dict.             *)
(***************************************************************************)
MaxResults == 3    \* the length of a results list

Attributes == {"hit_rate", "n_edge_differences"}
AttributeValues == {0, 1}
OptionalBounds == {None, Some(0), Some(1)}

\* the entries a results list can hold
ResultEntries ==
    {[exception |-> TRUE, attrs |-> [a \in Attributes |-> 0]]}
        \cup {[exception |-> FALSE, attrs |-> attrs] :
                 attrs \in [Attributes -> AttributeValues]}

ResultLists == UNION {[1..n -> ResultEntries] : n \in 0..MaxResults}

\* the filter_params a ResultUnpacker can be given: at most one item per
\* attribute; an item holds the bounds params.get(...) finds, None when the
\* key is missing
FilterItems ==
    [name : Attributes, lower_bound : OptionalBounds, upper_bound : OptionalBounds]
FilterParams ==
    {<<>>} \cup {<<f>> : f \in FilterItems}
        \cup {<<f, g>> : f \in {x \in FilterItems : x.name = "hit_rate"},
                         g \in {x \in FilterItems : x.name = "n_edge_differences"}}
        \cup {<<g, f>> : f \in {x \in FilterItems : x.name = "hit_rate"},
                         g \in {x \in FilterItems : x.name = "n_edge_differences"}}

\* ResultUnpacker._check_exception
check_exception(x) == x.exception

\* ResultsFilter._compare_attribute_val_to_bounds: the exception it raises,
\* if any, and the value it returns
compare_attribute_val_to_bounds(attribute_val, lower_bound, upper_bound) ==
    LET has_lower_bound == lower_bound # None
        has_upper_bound == upper_bound # None
    IN  IF has_lower_bound /\ has_upper_bound
        THEN [exc |-> "none",
              value |-> lower_bound[1] <= attribute_val /\ attribute_val <= upper_bound[1]]
        ELSE IF ~ has_lower_bound /\ has_upper_bound
        THEN [exc |-> "none", value |-> attribute_val <= upper_bound[1]]
        ELSE IF has_lower_bound /\ ~ has_upper_bound
        THEN [exc |-> "none", value |-> lower_bound[1] <= attribute_val]
        ELSE [exc |-> "NoBoundsError", value |-> FALSE]

\* ResultsFilter.filter_results on the results at the positions listed, vals
\* being the attribute of every result: the comprehension raises at its first
\* result when no bound is given
filter_results(positions, vals, lower_bound, upper_bound) ==
    IF positions # <<>> /\ lower_bound = None /\ upper_bound = None
    THEN [exc |-> "NoBoundsError", filtered_results |-> <<>>]
    ELSE [exc |-> "none",
          filtered_results |->
              SelectSeq(positions,
                        LAMBDA i : compare_attribute_val_to_bounds(
                                       vals[i], lower_bound, upper_bound).value)]

\* ResultUnpacker._apply_single_filter
apply_single_filter(results, positions, item) ==
    filter_results(positions, [i \in DOMAIN results |-> results[i].attrs[item.name]],
                   item.lower_bound, item.upper_bound)

\* ResultUnpacker._get_filtered_ordinary_results: the filters are applied one
\* after the other, each to what the one before has left
RECURSIVE get_filtered_ordinary_results(_, _, _)
get_filtered_ordinary_results(results, positions, filter_params) ==
    IF filter_params = <<>> THEN [exc |-> "none", filtered_results |-> positions]
    ELSE LET first == apply_single_filter(results, positions, Head(filter_params))
         IN  IF first.exc # "none" THEN first
             ELSE get_filtered_ordinary_results(results, first.filtered_results,
                                                Tail(filter_params))

\* the positions of a list that a test holds for
Positions(results, Test(_)) ==
    SelectSeq([i \in 1..Len(results) |-> i], LAMBDA i : Test(results[i]))

\* the invalid results taken from all entries of the list instead of the
\* ordinary ones
InvalidResultsOfAllEntries(results, ordinary, valid) ==
    SelectSeq([i \in 1..Len(results) |-> i],
              LAMBDA i : \A k \in DOMAIN valid : valid[k] # i)

\* self._invalid_results = [x for x in self._ordinary_results
\*                          if x not in self._valid_results]
InvalidResults(results, ordinary, valid) ==
    SelectSeq(ordinary, LAMBDA i : \A k \in DOMAIN valid : valid[k] # i)

\* ResultUnpacker.__init__(results_list, filter_params)
NewResultUnpacker(results_list, filter_params) ==
    [op |-> "ResultUnpacker", results |-> results_list, filter_params |-> filter_params,
     checked |-> FALSE, result |-> "none",
     exceptional_results |-> <<>>, ordinary_results |-> <<>>,
     has_valid |-> FALSE, valid_results |-> <<>>, invalid_results |-> <<>>,
     has_counts |-> FALSE,
     n_exceptional_results |-> 0, n_ordinary_results |-> 0,
     n_valid_results |-> 0, n_invalid_results |-> 0]

\* ResultUnpacker._check_results_for_validity
check_results_for_validity(u) ==
    LET exceptional == Positions(u.results, LAMBDA x : check_exception(x))
        ordinary == Positions(u.results, LAMBDA x : ~ check_exception(x))
        u1 == [u EXCEPT !.checked = TRUE, !.exceptional_results = exceptional,
                        !.ordinary_results = ordinary]
        filtered == get_filtered_ordinary_results(u.results, ordinary, u.filter_params)
        valid == filtered.filtered_results
        invalid == InvalidResults(u.results, ordinary, valid)
        u2 == [u1 EXCEPT !.has_valid = TRUE, !.valid_results = valid,
                         !.invalid_results = invalid, !.has_counts = TRUE,
                         !.n_exceptional_results = Len(exceptional),
                         !.n_ordinary_results = Len(ordinary),
                         !.n_valid_results = Len(valid),
                         !.n_invalid_results = Len(invalid)]
    IN  IF filtered.exc # "none" THEN [u1 EXCEPT !.result = filtered.exc]
        ELSE IF Len(valid) + Len(invalid) + Len(exceptional) # Len(u.results)
        THEN [u2 EXCEPT !.result = "AssertionError"]
        ELSE [u2 EXCEPT !.result = "returned"]

\* unpacker._check_results_for_validity() is called
CheckResultsForValidity ==
    /\ ev.op = "ResultUnpacker"
    /\ ~ ev.checked
    /\ ev' = check_results_for_validity(ev)
    /\ UNCHANGED <<gen, drawn, dg, np_random, built, held, eff, tp>>

\* ResultUnpacker(results_list, filter_params)
InitUnpack ==
    /\ gen = <<>>
    /\ drawn = <<>>
    /\ dg = NoDataGenerator
    /\ np_random = <<>>
    /\ built = <<>>
    /\ held = None
    /\ eff = NoCall
    /\ tp = NoTaskPreparator
    /\ \E results_list \in ResultLists, filter_params \in FilterParams :
          ev = NewResultUnpacker(results_list, filter_params)

NextUnpack == CheckResultsForValidity

SpecUnpack == InitUnpack /\ [][NextUnpack]_vars

(***************************************************************************)
(* FilterParametersManager._get_filter_params_list                         *)
(* (qprobing/filter_parameters_manager.py) and the ResultsFilter applied   *)
(* with the bounds of a bin.  The bounds and the attribute values are      *)
(* floats: a float is kept as the integer number of units it holds, one    *)
(* unit being the spacing of the representable numbers, and the quotient   *)
(* of the division, which need not be representable, is rounded to the     *)
(* nearest unit.                                                           *)
(***************************************************************************)
BinLowerBounds == {0, 1}
BinUpperBounds == {8, 9, 10}
NBins == {None, Some(0), Some(1), Some(2), Some(3)}
BinValues == {0, 4, 5, 8, 10}
BinResultLists == {<<v>> : v \in BinValues} \cup {<<v, w>> : v \in BinValues, w \in BinValues}

\* a / b rounded to the nearest integer, for b > 0
RoundedQuotient(a, b) ==
    IF a >= 0 THEN (2 * a + b) \div (2 * b) ELSE - ((2 * (- a) + b) \div (2 * b))

\* FilterParametersManager._get_regular_bounds
get_regular_bounds(lower_bound, bin_size, i) ==
    [lower_bound |-> lower_bound + i * bin_size,
     upper_bound |-> lower_bound + (i + 1) * bin_size]

\* FilterParametersManager._get_filter_params_list: n_bins is
\* filter_params.get('n_bins', 1); the division raises ZeroDivisionError for
\* n_bins = 0
get_filter_params_list(lower_bound, upper_bound, n_bins_given) ==
    LET n_bins == IF n_bins_given = None THEN 1 ELSE n_bins_given[1]
        bin_size == RoundedQuotient(upper_bound - lower_bound, n_bins)
    IN  IF n_bins = 0 THEN [exc |-> "ZeroDivisionError", bins |-> <<>>]
        ELSE [exc |-> "none",
              bins |-> [k \in 1..n_bins |->
                           get_regular_bounds(lower_bound, bin_size, k - 1)]]

\* the filter parameters of one attribute and the attribute values of the
\* results the bins are used on
NewFilterParametersManager(lower_bound, upper_bound, n_bins, vals) ==
    [op |-> "FilterParametersManager", lower_bound |-> lower_bound,
     upper_bound |-> upper_bound, n_bins |-> n_bins, vals |-> vals,
     built |-> FALSE, result |-> "none", bins |-> <<>>, selected |-> <<>>]

\* FilterParametersManager(filter_params_dict)
BuildBins ==
    /\ ev.op = "FilterParametersManager"
    /\ ~ ev.built
    /\ LET made == get_filter_params_list(ev.lower_bound, ev.upper_bound, ev.n_bins)
       IN  ev' = [ev EXCEPT !.built = TRUE,
                            !.result = IF made.exc = "none" THEN "returned" ELSE made.exc,
                            !.bins = made.bins,
                            !.selected = [k \in DOMAIN made.bins |-> None]]
    /\ UNCHANGED <<gen, drawn, dg, np_random, built, held, eff, tp>>

\* ResultsFilter(results, name, lower_bound, upper_bound).filter_results()
\* with the bounds of one of the bins
FilterWithBin ==
    /\ ev.op = "FilterParametersManager"
    /\ ev.built
    /\ \E k \in DOMAIN ev.bins :
          /\ ev.selected[k] = None
          /\ LET filtered == filter_results([i \in DOMAIN ev.vals |-> i], ev.vals,
                                            Some(ev.bins[k].lower_bound),
                                            Some(ev.bins[k].upper_bound))
             IN  ev' = [ev EXCEPT !.selected[k] = Some(filtered.filtered_results)]
    /\ UNCHANGED <<gen, drawn, dg, np_random, built, held, eff, tp>>

InitBins ==
    /\ gen = <<>>
    /\ drawn = <<>>
    /\ dg = NoDataGenerator
    /\ np_random = <<>>
    /\ built = <<>>
    /\ held = None
    /\ eff = NoCall
    /\ tp = NoTaskPreparator
    /\ \E lower_bound \in BinLowerBounds, upper_bound \in BinUpperBounds,
          n_bins \in NBins, vals \in BinResultLists :
          ev = NewFilterParametersManager(lower_bound, upper_bound, n_bins, vals)

NextBins == BuildBins \/ FilterWithBin

SpecBins == InitBins /\ [][NextBins]_vars

(***************************************************************************)
(* Vocabulary of the properties.                                           *)
(***************************************************************************)
Max0(m) == IF m > 0 THEN m ELSE 0

Rejected(s) == s.cyclic_graph_errors + s.isolated_node_errors

(***************************************************************************)
(* C1: whenever create_random_dag returns normally, the graph it leaves in *)
(* nx_graph / edges contains no directed cycle.                            *)
(***************************************************************************)
C1_ReturnedGraphAcyclic ==
    \A g \in DOMAIN gen :
        Returned(gen[g]) =>
            /\ gen[g].has_graph
            /\ ~ HasDirectedCycle(gen[g].edges)
            /\ ~ HasDirectedCycle(gen[g].nx_graph.edges)

\* a call that returned after a rejected attempt, with a graph of two edges or more
C1_Witness ==
    \E g \in DOMAIN gen :
        /\ Returned(gen[g])
        /\ gen[g].count >= 2
        /\ Cardinality(gen[g].edges) >= 2

(***************************************************************************)
(* C2: after a normal return with force_n_vars=True, len(nodes) = n_vars;  *)
(* with force_n_vars=False an acyclic draw with isolated nodes is accepted *)
(* without retry (no attempt is rejected for its isolated nodes, the loop  *)
(* goes on only after a cyclic draw) and len(nodes) <= n_vars.             *)
(***************************************************************************)
C2_NodeCount ==
    \A g \in DOMAIN gen :
        LET s == gen[g]
        IN  /\ (Returned(s) /\ s.force_n_vars) => Cardinality(s.nodes) = s.n_vars
            /\ (Returned(s) /\ ~ s.force_n_vars) => Cardinality(s.nodes) <= s.n_vars
            /\ (s.calls > 0 /\ ~ s.force_n_vars) => s.isolated_node_errors = 0
            /\ (s.pc = "loop" /\ s.count > 0 /\ ~ s.force_n_vars /\ ~ s.success)
                  => HasDirectedCycle(s.edges)

\* force_n_vars=False: a first draw with an isolated node was accepted
C2_Witness ==
    \E g \in DOMAIN gen :
        /\ Returned(gen[g])
        /\ ~ gen[g].force_n_vars
        /\ gen[g].count = 1
        /\ Cardinality(gen[g].nodes) < gen[g].n_vars
        /\ gen[g].nodes # {}

(***************************************************************************)
(* C3: a call makes at most max_count attempts; it stops at the first      *)
(* accepted attempt; it raises TooManyAttemptsError exactly when max_count *)
(* attempts have all been rejected (with zero attempts when max_count <=   *)
(* 0); attempt number max_count + 1 is never made.                         *)
(***************************************************************************)
C3_AtMostMaxCountAttempts ==
    \A g \in DOMAIN gen :
        LET s == gen[g]
        IN  s.calls > 0 =>
              /\ s.count <= Max0(s.max_count)
              /\ s.success => Rejected(s) = s.count - 1
              /\ s.result = "TooManyAttemptsError" =>
                    /\ ~ s.success
                    /\ s.count = Max0(s.max_count)
                    /\ Rejected(s) = s.count
              /\ (Ended(s) /\ Rejected(s) = Max0(s.max_count)) =>
                    s.result = "TooManyAttemptsError"

\* TooManyAttemptsError after two rejected attempts
C3_Witness ==
    \E g \in DOMAIN gen :
        /\ gen[g].result = "TooManyAttemptsError"
        /\ gen[g].count = 2
        /\ gen[g].max_count = 2

(***************************************************************************)
(* C4: CyclicGraphError and IsolatedNodeError are always caught by the     *)
(* retry loop and never reach the caller; any other exception raised       *)
(* during an attempt ends the call at once, reaches the caller as it is    *)
(* and is not turned into TooManyAttemptsError.                            *)
(***************************************************************************)
C4_RetryScope ==
    \A g \in DOMAIN gen :
        LET s == gen[g]
        IN  /\ s.result \in {"none", "returned", "TooManyAttemptsError", "OtherError"}
            /\ (s.last_exc \in {"CyclicGraphError", "IsolatedNodeError"} /\ s.pc = "idle")
                  => s.result = "TooManyAttemptsError"
            /\ s.last_exc = "OtherError" => (s.pc = "idle" /\ s.result = "OtherError")
            /\ s.result = "OtherError" => (s.last_exc = "OtherError" /\ ~ s.success)

\* another exception ended the call at the first of two allowed attempts
C4_Witness ==
    \E g \in DOMAIN gen :
        /\ gen[g].result = "OtherError"
        /\ gen[g].count = 1
        /\ gen[g].max_count = 2

(***************************************************************************)
(* C5: when a seed was supplied (any integer, 0 included), every retry of  *)
(* a call draws with the previous attempt's seed plus 1, so no two         *)
(* consecutive attempts of the call use the same seed.                     *)
(***************************************************************************)
C5_RetrySeedPlusOne ==
    \A g \in DOMAIN gen :
        LET s == gen[g]
        IN  s.seed_arg # None =>
              \A i \in 2..Len(s.seeds_used) :
                  /\ s.seeds_used[i] # None
                  /\ s.seeds_used[i - 1] # None
                  /\ s.seeds_used[i][1] = s.seeds_used[i - 1][1] + 1

(***************************************************************************)
(* C6: the first attempt of a call draws with the seed exactly as supplied *)
(* to the constructor; the seed is incremented only on retry, that is only *)
(* after an attempt has been rejected.                                     *)
(***************************************************************************)
C6_FirstAttemptUsesGivenSeed ==
    \A g \in DOMAIN gen :
        LET s == gen[g]
        IN  s.calls = 1 =>
              /\ Len(s.seeds_used) >= 1 => s.seeds_used[1] = s.seed_arg
              /\ s.seed # s.seed_arg => Rejected(s) >= 1

(***************************************************************************)
(* C9: each rejected attempt increments exactly one rejection counter:     *)
(* cyclic_graph_errors when the drawn graph has a directed cycle (also     *)
(* when it has isolated nodes as well), isolated_node_errors only when the *)
(* graph is acyclic, force_n_vars is set and fewer than n_vars nodes are   *)
(* non-isolated.  At the end of a call the two counters add up to the      *)
(* number of rejected attempts: attempts - 1 on success, and on            *)
(* TooManyAttemptsError all attempts made, max(max_count, 0).  Both        *)
(* counters restart from 0 on every call.                                  *)
(***************************************************************************)
C9_EachAttempt(s) ==
    LET cyclic == HasDirectedCycle(s.edges)
        fewer  == Cardinality(Endpoints(s.edges)) < s.n_vars
    IN  /\ s.count = 0 =>
              (s.cyclic_graph_errors = 0 /\ s.isolated_node_errors = 0)
        /\ (s.count > 0 /\ s.last_exc = "OtherError") =>
              <<s.cyclic_graph_errors, s.isolated_node_errors>> = s.errors_before
        /\ (s.count > 0 /\ s.last_exc # "OtherError") =>
              /\ s.cyclic_graph_errors =
                    s.errors_before[1] + (IF cyclic THEN 1 ELSE 0)
              /\ s.isolated_node_errors =
                    s.errors_before[2]
                      + (IF ~ cyclic /\ s.force_n_vars /\ fewer THEN 1 ELSE 0)
              /\ s.success <=> Rejected(s) = s.errors_before[1] + s.errors_before[2]
        /\ Returned(s) => Rejected(s) = s.count - 1

C9_RejectionCounters ==
    \A g \in DOMAIN gen :
        LET s == gen[g]
        IN  s.calls > 0 =>
              /\ C9_EachAttempt(s)
              /\ s.result = "TooManyAttemptsError" =>
                    (Rejected(s) = s.count /\ Rejected(s) = Max0(s.max_count))

\* in a second call, a draw with a cycle and an isolated node was counted as cyclic only
C9_Witness ==
    \E g \in DOMAIN gen :
        LET s == gen[g]
        IN  /\ s.calls = 2
            /\ s.pc = "loop"
            /\ s.count = 1
            /\ s.force_n_vars
            /\ HasDirectedCycle(s.edges)
            /\ Cardinality(s.nodes) < s.n_vars
            /\ s.cyclic_graph_errors = 1
            /\ s.isolated_node_errors = 0

\* C9 as stated: on TooManyAttemptsError the counters add up to max_count
C9_AsStated ==
    \A g \in DOMAIN gen :
        LET s == gen[g]
        IN  s.calls > 0 =>
              /\ C9_EachAttempt(s)
              /\ s.result = "TooManyAttemptsError" =>
                    (Rejected(s) = s.count /\ Rejected(s) = s.max_count)

(***************************************************************************)
(* C7: generation is deterministic.  Two freshly constructed generators    *)
(* with the same n_vars, p_edge, integer seed and max_count, each calling  *)
(* create_random_dag once with the same force_n_vars, make the same number *)
(* of attempts and end with the same edges, or both raise                  *)
(* TooManyAttemptsError.                                                   *)
(***************************************************************************)
C7_Deterministic ==
    (DOMAIN gen = {1, 2} /\ Ended(gen[1]) /\ Ended(gen[2])) =>
        /\ gen[1].count = gen[2].count
        /\ gen[1].result = gen[2].result
        /\ gen[1].result \in {"returned", "TooManyAttemptsError"}
        /\ gen[1].has_graph = gen[2].has_graph
        /\ gen[1].edges = gen[2].edges
        /\ gen[1].seeds_used = gen[2].seeds_used

\* both calls returned at their second attempt, the seed moving on in between
C7_Witness ==
    /\ DOMAIN gen = {1, 2}
    /\ Returned(gen[1])
    /\ Returned(gen[2])
    /\ gen[2].count = 2
    /\ gen[2].seeds_used = <<Some(2), Some(3)>>
    /\ gen[2].edges # {}

(***************************************************************************)
(* C8: the node set of a DagGenerator (with or without force_n_vars) and   *)
(* of a DataGenerator (whichever constructor built it) is exactly the set  *)
(* of endpoints of its edges: a node without incident edge is never in it. *)
(***************************************************************************)
C8_NodesAreEndpoints ==
    /\ \A g \in DOMAIN gen :
          gen[g].has_graph =>
              /\ gen[g].edges = gen[g].nx_graph.edges
              /\ gen[g].nodes = Endpoints(gen[g].edges)
              /\ \A n \in gen[g].nx_graph.nodes :
                    (~ \E e \in gen[g].edges : n = e[1] \/ n = e[2]) => n \notin gen[g].nodes
    /\ dg.constructed =>
          /\ dg.nodes = Endpoints(dg.edges)
          /\ \A n \in dg.source_nodes :
                (~ \E e \in dg.edges : n = e[1] \/ n = e[2]) => n \notin dg.nodes

\* a DataGenerator built by from_nx_graph from a graph with an isolated node
C8_Witness ==
    /\ dg.constructed
    /\ dg.built_by = "from_nx_graph"
    /\ dg.nodes # {}
    /\ dg.source_nodes \ dg.nodes # {}

(***************************************************************************)
(* C10: after create_random_model the model's nodes and edges are the      *)
(* generator's, and every node has exactly one CPD, whose evidence is the  *)
(* set of the node's parents, with 2^|parents| columns and P(0) = 1 - P(1) *)
(* in each column; a further create_random_model does not accumulate CPDs. *)
(* "After create_random_model" is after a call that returned.              *)
(***************************************************************************)
C10_OneCpdPerNode ==
    dg.has_model /\ dg.result = "returned" =>
        /\ dg.model.nodes = dg.nodes
        /\ dg.model.edges = dg.edges
        /\ Cardinality(dg.model.cpds) = Cardinality(dg.nodes)
        /\ \A n \in dg.nodes :
              /\ Cardinality({c \in dg.model.cpds : c.variable = n}) = 1
              /\ \A c \in {x \in dg.model.cpds : x.variable = n} :
                    LET parents == {a \in dg.nodes : <<a, n>> \in dg.edges}
                    IN  /\ c.evidence = parents
                        /\ Len(c.values[1]) = Pow2(Cardinality(parents))
                        /\ Len(c.values[2]) = Pow2(Cardinality(parents))
                        /\ \A j \in 1..Len(c.values[2]) :
                              c.values[1][j] = Scale - c.values[2][j]

\* a second create_random_model on a graph with a node of two parents
C10_Witness ==
    /\ dg.has_model
    /\ dg.models = 2
    /\ dg.result = "returned"
    /\ \E c \in dg.model.cpds : Cardinality(c.evidence) = 2

(***************************************************************************)
(* pgmpy's model validation (BayesianNetwork.check_model): every node has  *)
(* a CPD, whose evidence is the node's parents and whose columns add up to *)
(* 1.                                                                      *)
(***************************************************************************)
CheckModel(model) ==
    \A n \in model.nodes :
        \E c \in model.cpds :
            /\ c.variable = n
            /\ c.evidence = GetParents(model.edges, n)
            /\ Len(c.values[1]) = Len(c.values[2])
            /\ \A j \in 1..Len(c.values[2]) : c.values[1][j] + c.values[2][j] = Scale

(***************************************************************************)
(* C12: create_random_model ends with an error whenever the model it       *)
(* built has a node without a CPD or does not pass validation, and the     *)
(* model in self.model always passes validation.                           *)
(***************************************************************************)
C12_NoUnvalidatedModel ==
    /\ dg.models > 0 /\ dg.has_model /\ ~ CheckModel(dg.model) => dg.result # "returned"
    /\ dg.has_model => CheckModel(dg.model)

(***************************************************************************)
(* C11: two parameterizations of the same graph with the same integer seed *)
(* give the same CPDs for every node, whatever was built in between.       *)
(***************************************************************************)
C11_SameSeedSameCpds ==
    \A i \in DOMAIN built, j \in DOMAIN built :
        built[i].seed # None /\ built[i].seed = built[j].seed =>
            /\ built[i].model.cpds = built[j].model.cpds
            /\ \A n \in dg.nodes :
                  {c \in built[i].model.cpds : c.variable = n}
                      = {c \in built[j].model.cpds : c.variable = n}

\* seeds s, t, s with different CPDs for s and t, on a graph with a node of
\* two parents
C11_Witness ==
    /\ Len(built) = 3
    /\ built[1].seed = built[3].seed
    /\ built[2].seed # built[1].seed
    /\ built[2].model.cpds # built[1].model.cpds
    /\ \E c \in built[3].model.cpds : Cardinality(c.evidence) = 2

(***************************************************************************)
(* C13: generate_data before any create_random_model raises                *)
(* MissingModelError without simulating, without setting self.data and     *)
(* without writing a file; with a model in self.model it does not raise    *)
(* MissingModelError.                                                      *)
(***************************************************************************)
C13_MissingModel ==
    eff.op = "generate_data" =>
        /\ dg.models = 0 =>
              /\ eff.result = "MissingModelError"
              /\ eff.simulations = 0
              /\ eff.files = 0
              /\ ~ dg.has_data /\ dg.data = NoData
        /\ dg.has_model => eff.result # "MissingModelError"

\* generate_data(2, seed=1, save_to_file="data.csv") on a fresh generator
C13_Witness ==
    /\ eff.op = "generate_data"
    /\ dg.models = 0
    /\ eff.result = "MissingModelError"
    /\ eff.n_samples = Some(2)
    /\ eff.save_to_file = Some("data.csv")

\* a directed path of at least one edge from source to target
DirectedPath(model, source, target) ==
    \E k \in 2..(Cardinality(model.nodes) + 1) :
        \E path \in [1..k -> model.nodes] :
            /\ path[1] = source
            /\ path[k] = target
            /\ \A i \in 1..(k - 1) : <<path[i], path[i + 1]>> \in model.edges

IsEffectQuery == eff.op \in {"calculate_effect", "simulate_effect"}

NoStrategyRun == eff.simulations = 0 /\ eff.inferences = 0

(***************************************************************************)
(* C14, as stated: determine_effect returns exactly 1 when treatment =     *)
(* outcome and exactly 0 when no directed path leads from treatment to     *)
(* outcome, for both classes and every n_samples, without inference,       *)
(* simulation or SimulationFallbackError.                                  *)
(***************************************************************************)
C14_AsStated ==
    IsEffectQuery =>
        /\ eff.treatment = eff.outcome =>
              eff.result = "returned" /\ eff.value = Frac(1, 1) /\ NoStrategyRun
        /\ /\ eff.treatment # eff.outcome
           /\ ~ DirectedPath(dg.model, eff.treatment, eff.outcome)
           => eff.result = "returned" /\ eff.value = Frac(0, 1) /\ NoStrategyRun

(***************************************************************************)
(* C14, amended: the same for a treatment and an outcome that are nodes of *)
(* the model; for different names of which one is not a node of the model  *)
(* the call raises NodeNotFound, again without running anything.           *)
(***************************************************************************)
C14_TrivialEffects ==
    IsEffectQuery =>
        /\ eff.treatment = eff.outcome =>
              eff.result = "returned" /\ eff.value = Frac(1, 1) /\ NoStrategyRun
        /\ /\ eff.treatment # eff.outcome
           /\ {eff.treatment, eff.outcome} \subseteq dg.model.nodes
           /\ ~ DirectedPath(dg.model, eff.treatment, eff.outcome)
           => eff.result = "returned" /\ eff.value = Frac(0, 1) /\ NoStrategyRun
        /\ /\ eff.treatment # eff.outcome
           /\ {eff.treatment, eff.outcome} \ dg.model.nodes # {}
           => eff.result = "NodeNotFound" /\ NoStrategyRun

\* simulate_effect without n_samples for two unconnected nodes of the model
C14_Witness ==
    /\ eff.op = "simulate_effect"
    /\ eff.n_samples = None
    /\ eff.treatment # eff.outcome
    /\ {eff.treatment, eff.outcome} \subseteq dg.model.nodes
    /\ ~ DirectedPath(dg.model, eff.treatment, eff.outcome)
    /\ eff.value = Frac(0, 1)

\* a query that is not trivial: different nodes of the model, joined by a
\* directed path
Nontrivial ==
    /\ eff.treatment # eff.outcome
    /\ {eff.treatment, eff.outcome} \subseteq dg.model.nodes
    /\ DirectedPath(dg.model, eff.treatment, eff.outcome)

\* different nodes joined by a directed path but by no edge
ProblematicPair(model, treatment, outcome) ==
    /\ treatment # outcome
    /\ DirectedPath(model, treatment, outcome)
    /\ <<treatment, outcome>> \notin model.edges

(***************************************************************************)
(* C15: in a nontrivial query EffectCalculator determines every            *)
(* interventional mean by simulation when there is no edge (treatment,     *)
(* outcome), and by exact inference when there is one, whatever other      *)
(* paths exist; _effect_is_problematic holds for exactly the pairs of      *)
(* different nodes joined by a directed path but by no edge.               *)
(***************************************************************************)
C15_StrategyDispatch ==
    /\ dg.has_model =>
          \A t \in dg.model.nodes, o \in dg.model.nodes :
              effect_is_problematic(dg.model, t, o) <=> ProblematicPair(dg.model, t, o)
    /\ eff.op = "calculate_effect" /\ Nontrivial =>
          IF <<eff.treatment, eff.outcome>> \in dg.model.edges
          THEN /\ eff.simulations = 0
               /\ eff.inferences >= 1
               /\ eff.result = "returned" => eff.inferences = 2
          ELSE /\ eff.inferences = 0
               /\ eff.simulations = 0 => eff.result = "SimulationFallbackError"
               /\ eff.result = "returned" => eff.simulations = 2

\* an edge (treatment, outcome) next to a path through the third node
C15_Witness ==
    /\ eff.op = "calculate_effect"
    /\ eff.result = "returned"
    /\ eff.inferences = 2
    /\ <<eff.treatment, eff.outcome>> \in dg.model.edges
    /\ \E n \in dg.model.nodes :
          <<eff.treatment, n>> \in dg.model.edges /\ <<n, eff.outcome>> \in dg.model.edges

(***************************************************************************)
(* C16: when EffectCalculator needs the simulation fallback and n_samples  *)
(* is None or 0, determine_effect raises SimulationFallbackError before    *)
(* any simulation or inference and returns no value; with a positive       *)
(* n_samples it never raises SimulationFallbackError.                      *)
(***************************************************************************)
C16_FallbackError ==
    eff.op = "calculate_effect" =>
        /\ /\ {eff.treatment, eff.outcome} \subseteq dg.model.nodes
           /\ ProblematicPair(dg.model, eff.treatment, eff.outcome)
           /\ eff.n_samples \in {None, Some(0)}
           => eff.result = "SimulationFallbackError" /\ NoStrategyRun /\ eff.value = None
        /\ eff.n_samples # None /\ eff.n_samples[1] > 0
           => eff.result # "SimulationFallbackError"

\* the fallback with n_samples = 0
C16_Witness ==
    /\ eff.op = "calculate_effect"
    /\ eff.n_samples = Some(0)
    /\ {eff.treatment, eff.outcome} \subseteq dg.model.nodes
    /\ ProblematicPair(dg.model, eff.treatment, eff.outcome)
    /\ eff.result = "SimulationFallbackError"

(***************************************************************************)
(* C17: simulate_effect for a nontrivial query with n_samples None raises  *)
(* SimulationFallbackError and does not call the simulator.                *)
(***************************************************************************)
C17_SimulatorWithoutBudget ==
    eff.op = "simulate_effect" /\ Nontrivial /\ eff.n_samples = None =>
        eff.result = "SimulationFallbackError" /\ eff.simulations = 0

(***************************************************************************)
(* C18: two calculate_effect calls with the same model, treatment, outcome *)
(* and n_samples return the same value (stated for the calls that return). *)
(***************************************************************************)
C18_CalculateEffectPure ==
    /\ eff.op = "calculate_effect"
    /\ eff.again # None
    /\ eff.result = "returned"
    /\ eff.again[1].result = "returned"
    => FracEq(eff.value, eff.again[1].value)

C20_MeanIsProportion ==
    eff.op = "mean_from_simulated_samples" /\ Len(eff.samples) > 0 =>
        /\ eff.result = "returned"
        /\ FracEq(eff.value,
                  Frac(Cardinality({i \in DOMAIN eff.samples :
                                       eff.samples[i][eff.outcome] = 1}),
                       Len(eff.samples)))

(***************************************************************************)
(* C25: create_random_model re-seeds the generator with the same seed      *)
(* before every node's draw: with a seed that is not None, two nodes with  *)
(* the same number of parents get identical probability-of-1 vectors, and  *)
(* the vector of a node with fewer parents is a prefix of the vector of    *)
(* any node with more parents.                                             *)
(***************************************************************************)
IsPrefix(u, v) == Len(u) <= Len(v) /\ \A i \in 1..Len(u) : u[i] = v[i]

C25_SameSeedEveryNode ==
    (dg.result = "returned" /\ dg.model_seed # None) =>
        \A c1 \in dg.model.cpds, c2 \in dg.model.cpds :
            /\ Cardinality(c1.evidence) = Cardinality(c2.evidence) => c1.values[2] = c2.values[2]
            /\ Cardinality(c1.evidence) < Cardinality(c2.evidence) => IsPrefix(c1.values[2], c2.values[2])

C25_Witness ==
    /\ dg.result = "returned"
    /\ dg.model_seed # None
    /\ \E c1 \in dg.model.cpds, c2 \in dg.model.cpds :
           /\ c1.variable # c2.variable
           /\ Cardinality(c1.evidence) = 0
           /\ Cardinality(c2.evidence) = 2
           /\ IsPrefix(c1.values[2], c2.values[2])
    /\ \E c1 \in dg.model.cpds, c2 \in dg.model.cpds :
           /\ c1.variable # c2.variable
           /\ Cardinality(c1.evidence) = Cardinality(c2.evidence)

(***************************************************************************)
(* C26: nx_graph, edges and nodes are overwritten with each drawn graph    *)
(* before it is checked, so they always hold the most recent draw; after a *)
(* call that ended in TooManyAttemptsError with max_count >= 1 they hold a *)
(* rejected graph, cyclic or with fewer than n_vars non-isolated nodes,    *)
(* not what they held before the call.                                     *)
(***************************************************************************)
HoldsDraw(s, g) ==
    /\ s.has_graph
    /\ s.nx_graph = g
    /\ s.edges = g.edges
    /\ s.nodes = Endpoints(g.edges)

C26_AttributesHoldLastDraw ==
    \A g \in DOMAIN gen :
        LET s == gen[g]
        IN  /\ s.last_draw # None => HoldsDraw(s, s.last_draw[1])
            /\ (Ended(s) /\ s.result = "TooManyAttemptsError" /\ s.max_count >= 1) =>
                  /\ s.last_draw # None
                  /\ HoldsDraw(s, s.last_draw[1])
                  /\ \/ HasDirectedCycle(s.edges)
                     \/ Cardinality(s.nodes) < s.n_vars

C26_Witness ==
    \E g \in DOMAIN gen :
        LET s == gen[g]
        IN  /\ Ended(s)
            /\ s.result = "TooManyAttemptsError"
            /\ s.max_count >= 1
            /\ s.calls = 2
            /\ HoldsDraw(s, s.last_draw[1])
            /\ HasDirectedCycle(s.edges)

(***************************************************************************)
(* C27: create_random_dag changes the seed attribute and never restores    *)
(* it: after the first call on a generator built with a nonzero seed s,    *)
(* having made k attempts, self.seed is s + k; a second call starts from a *)
(* later seed than the first one did.                                      *)
(***************************************************************************)
C27_SeedAdvancesByAttempts ==
    \A g \in DOMAIN gen :
        LET s == gen[g]
        IN  (Ended(s) /\ Truthy(s.seed_arg)) =>
              /\ s.calls = 1 => s.seed = Some(s.seed_arg[1] + Len(s.seeds_used))
              /\ (s.calls >= 2 /\ s.max_count >= 1) =>
                     s.seed_at_call[1] > s.seed_arg[1]

(***************************************************************************)
(* Vocabulary of the TaskPreparator properties.                            *)
(***************************************************************************)
TaskEnded == tp.pc = "idle" /\ tp.calls > 0
TaskReturned == TaskEnded /\ tp.result = "returned"
NHints == IntOf(tp.p_hint, Cardinality(tp.model.edges))
NProbes == IntOf(tp.p_probe, Cardinality(tp.model.nodes) * Cardinality(tp.model.nodes))
ProbePairs == {<<p.treatment, p.outcome>> : p \in tp.probes}
TrivialProbe(p) ==
    p.treatment = p.outcome \/ ~ DirectedPath(tp.nx_graph, p.treatment, p.outcome)

\* p is a probe _create_probe_from_spec can make with the given tolerance
MadeWith(p, tolerance) ==
    \E c \in TaskCounts(tp.model, p.treatment, p.outcome, tp.n_samples) :
        LET made == create_probe_from_spec(tp.model, <<p.treatment, p.outcome>>,
                                           tolerance, tp.n_samples, c)
        IN  made.result = "returned" /\ p = Probe(made)

(***************************************************************************)
(* C21: a failed prepare_task leaves nothing that interferes with a later  *)
(* call.  On a fresh preparator a ValueError from p_hint > 1 leaves        *)
(* neither hints nor probes set, a ValueError from p_probe > 1 leaves      *)
(* hints set and probes unset; a later call that returns sets hints and    *)
(* probes from its own arguments alone (p_hint = 0 gives empty hints).     *)
(***************************************************************************)
C21_FailedCallLeavesNoRemains ==
    LET hints_fail == NHints > Cardinality(tp.model.edges)
        probes_fail == NProbes > Cardinality(tp.nx_graph.nodes \X tp.nx_graph.nodes)
    IN  /\ (TaskEnded /\ tp.calls = 1 /\ tp.result = "ValueError" /\ hints_fail) =>
               ~ tp.has_hints /\ ~ tp.has_probes
        /\ (TaskEnded /\ tp.calls = 1 /\ tp.result = "ValueError"
                /\ ~ hints_fail /\ probes_fail) =>
               tp.has_hints /\ ~ tp.has_probes
        /\ (TaskReturned /\ tp.calls >= 2) =>
               /\ tp.has_hints /\ tp.has_probes
               /\ tp.hints \subseteq tp.model.edges
               /\ Cardinality(tp.hints) = NHints
               /\ tp.p_hint = 0 => tp.hints = {}
               /\ Cardinality(tp.probes) = NProbes
               /\ \A p \in tp.probes : MadeWith(p, tp.tolerance)

C21_Witness ==
    /\ TaskReturned
    /\ tp.calls = 2
    /\ tp.hints_before # None
    /\ tp.hints_before[1] # {}
    /\ tp.p_hint = 0
    /\ tp.hints = {}
    /\ tp.probes # {}

(***************************************************************************)
(* C22: after a prepare_task that returned, hints is a set of exactly      *)
(* int(p_hint * |edges|) edges of the model and probes a set of exactly    *)
(* int(p_probe * n^2) probes over different ordered pairs of nodes, the    *)
(* pairs (x, x) included: p = 1 selects every edge and all n^2 pairs,      *)
(* p = 0 none.                                                             *)
(***************************************************************************)
C22_HintsAndProbesCounts ==
    TaskReturned =>
        /\ tp.hints \subseteq tp.model.edges
        /\ Cardinality(tp.hints) = NHints
        /\ Cardinality(tp.probes) = NProbes
        /\ Cardinality(ProbePairs) = NProbes
        /\ ProbePairs \subseteq tp.model.nodes \X tp.model.nodes
        /\ tp.p_hint = 100 => tp.hints = tp.model.edges
        /\ tp.p_probe = 100 => ProbePairs = tp.model.nodes \X tp.model.nodes
        /\ tp.p_hint = 0 => tp.hints = {}
        /\ tp.p_probe = 0 => tp.probes = {}

C22_Witness ==
    /\ TaskReturned
    /\ tp.p_hint = 50
    /\ Cardinality(tp.hints) = 1
    /\ tp.p_probe = 100
    /\ Cardinality(tp.probes) = 9
    /\ \E p \in tp.probes : p.treatment = p.outcome

(***************************************************************************)
(* C23: TrivialityChecker.check_probe is True exactly for the trivial      *)
(* probes, those whose treatment and outcome are the same node or whose    *)
(* outcome no directed path of the true graph leads to from the treatment, *)
(* whatever tolerance the TaskPreparator made the probes with.             *)
(***************************************************************************)
C23_CheckProbeIffTrivial ==
    TaskReturned => \A p \in tp.probes : check_probe(p) <=> TrivialProbe(p)

(***************************************************************************)
(* C28: a TaskPreparator works with a sample budget of 1000 whatever       *)
(* n_samples its constructor was given, so that prepare_task never raises  *)
(* SimulationFallbackError.                                                *)
(***************************************************************************)
C28_SampleBudgetFixed ==
    tp.constructed =>
        /\ tp.n_samples = Some(DefaultSamples)
        /\ tp.result # "SimulationFallbackError"

C28_Witness ==
    /\ TaskReturned
    /\ tp.n_samples_arg = None
    /\ tp.n_samples = Some(DefaultSamples)
    /\ ProblematicPair(tp.model, tp.treatment, tp.outcome)
    /\ \E p \in tp.probes : ProblematicPair(tp.model, p.treatment, p.outcome)

(***************************************************************************)
(* C29, as stated: the selection loop returns only pairs of different      *)
(* nodes joined by a directed path, and it ends only on a graph that has   *)
(* such a pair, that is at least one edge.                                 *)
(***************************************************************************)
HasNontrivialPair(nx_graph) ==
    \E pr \in nx_graph.nodes \X nx_graph.nodes :
        pr[1] # pr[2] /\ DirectedPath(nx_graph, pr[1], pr[2])

C29_AsStated ==
    /\ tp.has_target =>
           tp.treatment # tp.outcome /\ DirectedPath(tp.nx_graph, tp.treatment, tp.outcome)
    /\ (tp.calls > 0 /\ tp.pc # "select") =>
           HasNontrivialPair(tp.nx_graph) /\ tp.nx_graph.edges # {}

(***************************************************************************)
(* C29: _get_random_treatment_and_outcome(nontrivial=True) returns only    *)
(* pairs of different nodes joined by a directed path.  On a graph with    *)
(* two or more nodes its loop ends, under fair random choice, if and only  *)
(* if the graph has such a pair, that is at least one edge: with such a    *)
(* pair it ends, without one it never does.  On a graph with fewer than    *)
(* two nodes the first random.sample raises ValueError and no pair is      *)
(* returned.                                                               *)
(***************************************************************************)
C29_SelectionLoop ==
    /\ [](tp.has_target =>
             tp.treatment # tp.outcome
             /\ DirectedPath(tp.nx_graph, tp.treatment, tp.outcome))
    /\ [](HasNontrivialPair(tp.nx_graph) <=> tp.nx_graph.edges # {})
    /\ (tp.pc = "select" /\ HasNontrivialPair(tp.nx_graph)) ~> (tp.pc # "select")
    /\ [][(tp.pc = "select" /\ ~ HasNontrivialPair(tp.nx_graph)) => tp'.pc = "select"]_vars
    /\ []((TaskEnded /\ Cardinality(tp.nx_graph.nodes) < 2) =>
             tp.result = "ValueError" /\ ~ tp.has_target)
    /\ [](tp.pc = "select" => Cardinality(tp.nx_graph.nodes) >= 2)

C29_Witness ==
    /\ tp.pc = "prepare"
    /\ tp.has_target
    /\ tp.draws >= 1
    /\ DirectedPath(tp.nx_graph, tp.treatment, tp.outcome)
    /\ \E pr \in SamplePairs(tp.nx_graph) : ~ DirectedPath(tp.nx_graph, pr[1], pr[2])

(***************************************************************************)
(* C24, as stated: for any results list and any filter parameters the      *)
(* check classifies every entry: n_valid + n_invalid + n_exceptional is    *)
(* the length of the list.                                                 *)
(***************************************************************************)
C24_AsStated ==
    (ev.op = "ResultUnpacker" /\ ev.checked) =>
        /\ ev.has_counts
        /\ ev.n_valid_results + ev.n_invalid_results + ev.n_exceptional_results
               = Len(ev.results)

(***************************************************************************)
(* C24: the assertion of _check_results_for_validity never fails, and      *)
(* whenever the check completes every entry of the results list is in      *)
(* exactly one of exceptional, valid and invalid, the three counts add up  *)
(* to the length of the list, and the valid results are exactly the        *)
(* ordinary results that satisfy every configured filter.  The check does  *)
(* not complete when a filter without any bound is applied to a non-empty  *)
(* list: it raises NoBoundsError before valid and invalid are set.         *)
(***************************************************************************)
Satisfies(x, item) ==
    /\ item.lower_bound # None => item.lower_bound[1] <= x.attrs[item.name]
    /\ item.upper_bound # None => x.attrs[item.name] <= item.upper_bound[1]

Members(list) == {list[k] : k \in DOMAIN list}

C24_ResultsClassified ==
    (ev.op = "ResultUnpacker" /\ ev.checked) =>
        /\ ev.result \in {"returned", "NoBoundsError"}
        /\ ev.result = "returned" =>
              /\ ev.n_valid_results + ev.n_invalid_results + ev.n_exceptional_results
                     = Len(ev.results)
              /\ \A i \in DOMAIN ev.results :
                     Cardinality({l \in {"e", "v", "i"} :
                         \E k \in DOMAIN (CASE l = "e" -> ev.exceptional_results
                                            [] l = "v" -> ev.valid_results
                                            [] l = "i" -> ev.invalid_results) :
                             (CASE l = "e" -> ev.exceptional_results
                                [] l = "v" -> ev.valid_results
                                [] l = "i" -> ev.invalid_results)[k] = i}) = 1
              /\ Members(ev.valid_results) =
                     {i \in DOMAIN ev.results :
                         /\ ~ ev.results[i].exception
                         /\ \A f \in DOMAIN ev.filter_params :
                                Satisfies(ev.results[i], ev.filter_params[f])}
              /\ Len(ev.valid_results) = Cardinality(Members(ev.valid_results))
        /\ ev.result = "NoBoundsError" =>
              /\ ~ ev.has_valid
              /\ \E f \in DOMAIN ev.filter_params :
                     /\ ev.filter_params[f].lower_bound = None
                     /\ ev.filter_params[f].upper_bound = None

C24_Witness ==
    /\ ev.op = "ResultUnpacker"
    /\ ev.checked
    /\ ev.result = "returned"
    /\ Len(ev.filter_params) = 2
    /\ ev.n_valid_results = 1
    /\ ev.n_invalid_results = 1
    /\ \E i \in DOMAIN ev.results : ev.results[i].exception

(***************************************************************************)
(* C30: the bins of a variable filter are n_bins intervals of equal width  *)
(* whose union is [lower_bound, upper_bound], bin i+1 starting exactly     *)
(* where bin i ends; both bounds being inclusive in ResultsFilter, a       *)
(* result whose attribute is an interior bin boundary is selected for both *)
(* adjacent bins.                                                          *)
(***************************************************************************)
BinsBuilt ==
    /\ ev.op = "FilterParametersManager"
    /\ ev.built
    /\ ev.result = "returned"
    /\ ev.n_bins # None

C30_BinsCoverTheRange ==
    BinsBuilt =>
        /\ Len(ev.bins) = ev.n_bins[1]
        /\ \A k \in DOMAIN ev.bins, l \in DOMAIN ev.bins :
               ev.bins[k].upper_bound - ev.bins[k].lower_bound
                   = ev.bins[l].upper_bound - ev.bins[l].lower_bound
        /\ \A k \in DOMAIN ev.bins :
               k + 1 \in DOMAIN ev.bins =>
                   ev.bins[k + 1].lower_bound = ev.bins[k].upper_bound
        /\ ev.bins[1].lower_bound = ev.lower_bound
        /\ ev.bins[Len(ev.bins)].upper_bound = ev.upper_bound
        /\ \A k \in DOMAIN ev.bins, i \in DOMAIN ev.vals :
               (/\ k + 1 \in DOMAIN ev.bins
                /\ ev.vals[i] = ev.bins[k].upper_bound
                /\ ev.selected[k] # None
                /\ ev.selected[k + 1] # None) =>
                   /\ i \in Members(ev.selected[k][1])
                   /\ i \in Members(ev.selected[k + 1][1])

====
